---------------------------- MODULE Spec2Model ----------------------------
(***************************************************************************)
(* Model of the electricity-access store (db_designer.py), the backend     *)
(* CRUD pass-throughs and analytical queries (backend.py) and the          *)
(* population upsert of the loader (data_loader.py).                       *)
(*                                                                         *)
(* Text (country names, keywords, the characters of a column name) is a    *)
(* sequence of one-character strings, so that Python's `in`, lower() and   *)
(* strip() are computed character by character.  A cell is NULL (<<>>)     *)
(* or <<v>>.  Percentages are integers counting hundredths of a percent    *)
(* (7500 is 75.00), which is what round(x, 2) leaves.                      *)
(***************************************************************************)
EXTENDS Integers, Sequences, FiniteSets, TLC

VARIABLES
    tables,      \* sqlite_master: physical table name -> its column names
    countries,   \* rows of the Countries table
    elec,        \* rows of the ElectricityAccess table
    popdata,     \* rows of the PopulationData table
    elec_seq,    \* sqlite_sequence of ElectricityAccess (AUTOINCREMENT)
    country_seq, \* sqlite_sequence of Countries
    pop_seq,     \* sqlite_sequence of PopulationData
    last         \* the last call: [op, args, ret]

vars == <<tables, countries, elec, popdata, elec_seq, country_seq, pop_seq, last>>
store == <<tables, countries, elec, popdata, elec_seq, country_seq, pop_seq>>

---------------------------------------------------------------------------
(* Text constants *)

col_country_id == "country_id"
col_country_name == "country_name"
col_region == "region"
col_record_id == "record_id"
col_year == "year"
col_population == "population"
col_people_without_electricity == "people_without_electricity"
col_people_with_electricity == "people_with_electricity"
col_pop_id == "pop_id"

\* the characters of each column name
ColumnNames ==
    {col_country_id, col_country_name, col_region, col_record_id, col_year,
     col_population, col_people_without_electricity, col_people_with_electricity,
     col_pop_id}

ColText ==
    [c \in ColumnNames |->
        CASE c = col_country_id -> <<"c", "o", "u", "n", "t", "r", "y", "_", "i", "d">>
          [] c = col_country_name -> <<"c", "o", "u", "n", "t", "r", "y", "_", "n", "a", "m", "e">>
          [] c = col_region -> <<"r", "e", "g", "i", "o", "n">>
          [] c = col_record_id -> <<"r", "e", "c", "o", "r", "d", "_", "i", "d">>
          [] c = col_year -> <<"y", "e", "a", "r">>
          [] c = col_population -> <<"p", "o", "p", "u", "l", "a", "t", "i", "o", "n">>
          [] c = col_people_without_electricity ->
                <<"p", "e", "o", "p", "l", "e", "_", "w", "i", "t", "h", "o", "u", "t", "_", "e", "l", "e", "c", "t", "r", "i", "c", "i", "t", "y">>
          [] c = col_people_with_electricity ->
                <<"p", "e", "o", "p", "l", "e", "_", "w", "i", "t", "h", "_", "e", "l", "e", "c", "t", "r", "i", "c", "i", "t", "y">>
          [] c = col_pop_id -> <<"p", "o", "p", "_", "i", "d">>]

s_id == <<"i", "d">>
s_name == <<"n", "a", "m", "e">>
s_region == <<"r", "e", "g", "i", "o", "n">>
s_year == <<"y", "e", "a", "r">>
s_without == <<"w", "i", "t", "h", "o", "u", "t">>
s_with == <<"w", "i", "t", "h">>
s_population == <<"p", "o", "p", "u", "l", "a", "t", "i", "o", "n">>
s_country == <<"c", "o", "u", "n", "t", "r", "y">>
s_record == <<"r", "e", "c", "o", "r", "d">>

Testland == <<"T", "e", "s", "t", "l", "a", "n", "d">>
World == <<"W", "o", "r", "l", "d">>
Kenya == <<"K", "e", "n", "y", "a">>
RegionX == <<"R", "e", "g", "i", "o", "n", "X">>

AGGREGATE_WORDS ==
  { <<"w", "o", "r", "l", "d">>,
    <<"i", "n", "c", "o", "m", "e">>,
    <<"i", "d", "a">>,
    <<"i", "b", "r", "d">>,
    <<"o", "e", "c", "d">>,
    <<"r", "e", "g", "i", "o", "n">>,
    <<"r", "e", "g", "i", "o", "n", "s">>,
    <<"a", "s", "i", "a">>,
    <<"a", "f", "r", "i", "c", "a">>,
    <<"e", "u", "r", "o", "p", "e">>,
    <<"a", "m", "e", "r", "i", "c", "a">>,
    <<"c", "a", "r", "i", "b", "b", "e", "a", "n">>,
    <<"p", "a", "c", "i", "f", "i", "c">>,
    <<"b", "l", "e", "n", "d">>,
    <<"o", "n", "l", "y">>,
    <<"t", "o", "t", "a", "l">>,
    <<"d", "e", "m", "o", "g", "r", "a", "p", "h", "i", "c">>,
    <<"f", "r", "a", "g", "i", "l", "e">>,
    <<"h", "i", "p", "c">>,
    <<"h", "i", "g", "h", " ", "i", "n", "c", "o", "m", "e">>,
    <<"l", "o", "w", " ", "i", "n", "c", "o", "m", "e">>,
    <<"m", "i", "d", "d", "l", "e", " ", "i", "n", "c", "o", "m", "e">>,
    <<"s", "m", "a", "l", "l", " ", "s", "t", "a", "t", "e", "s">>,
    <<"l", "e", "a", "s", "t">>,
    <<"d", "e", "v", "e", "l", "o", "p", "e", "d">>,
    <<"d", "e", "v", "e", "l", "o", "p", "i", "n", "g">> }

---------------------------------------------------------------------------
(* Python str operations on sequences of characters *)

UpperChars == <<"A", "B", "C", "D", "E", "F", "G", "H", "I", "J", "K", "L", "M", "N", "O", "P", "Q", "R", "S", "T", "U", "V", "W", "X", "Y", "Z">>
LowerChars == <<"a", "b", "c", "d", "e", "f", "g", "h", "i", "j", "k", "l", "m", "n", "o", "p", "q", "r", "s", "t", "u", "v", "w", "x", "y", "z">>
Whitespace == {" "}

\* str.lower() on one character, for the characters in use
LowerMap ==
    [c \in {UpperChars[i] : i \in 1..26} \cup {LowerChars[i] : i \in 1..26}
           \cup {" ", "_"} |->
        IF \E i \in 1..26 : UpperChars[i] = c
        THEN LowerChars[CHOOSE i \in 1..26 : UpperChars[i] = c]
        ELSE c]

LowerChar(c) == LowerMap[c]

\* str.lower()
Lower(s) == [i \in 1..Len(s) |-> LowerChar(s[i])]

\* str.strip(): drop the leading and the trailing whitespace
RECURSIVE LStrip(_)
LStrip(s) == IF s # <<>> /\ Head(s) \in Whitespace THEN LStrip(Tail(s)) ELSE s

RECURSIVE RStrip(_)
RStrip(s) ==
    IF s # <<>> /\ s[Len(s)] \in Whitespace
    THEN RStrip(SubSeq(s, 1, Len(s) - 1))
    ELSE s

Strip(s) == RStrip(LStrip(s))

\* Python's `k in s` on strings: k occurs in s as a contiguous substring
InStr(k, s) ==
    \E i \in 0..(Len(s) - Len(k)) : SubSeq(s, i + 1, i + Len(k)) = k

---------------------------------------------------------------------------
(* Cells: SQL NULL / Python None is <<>>, a value v is <<v>> *)

NULL == <<>>
Cell(v) == <<v>>
Val(c) == c[1]
\* COALESCE(c, d)
Coalesce(c, d) == IF c # NULL THEN c ELSE d

---------------------------------------------------------------------------
(* backend._is_aggregate; the argument is NULL (None) or Cell(text) *)

is_aggregate_nolower(name) ==
    IF name = NULL \/ Val(name) = <<>>
    THEN TRUE
    ELSE LET ln == Strip(Val(name))
         IN  \E k \in AGGREGATE_WORDS : InStr(k, ln)

is_aggregate(name) ==
    IF name = NULL \/ Val(name) = <<>>
    THEN TRUE
    ELSE LET ln == Lower(Strip(Val(name)))
         IN  \E k \in AGGREGATE_WORDS : InStr(k, ln)

---------------------------------------------------------------------------
(* Ordering of text (SQLite's BINARY collation) and sorting *)

\* the characters in use, in ASCII order
Alphabet == <<" ", "A", "B", "C", "D", "E", "F", "G", "H", "I", "J", "K", "L", "M", "N", "O", "P", "Q", "R", "S", "T", "U", "V", "W", "X", "Y", "Z", "_", "a", "b", "c", "d", "e", "f", "g", "h", "i", "j", "k", "l", "m", "n", "o", "p", "q", "r", "s", "t", "u", "v", "w", "x", "y", "z">>

Ord(c) == CHOOSE i \in 1..Len(Alphabet) : Alphabet[i] = c

RECURSIVE TextLess(_, _)
TextLess(a, b) ==
    IF b = <<>> THEN FALSE
    ELSE IF a = <<>> THEN TRUE
    ELSE IF Head(a) # Head(b) THEN Ord(Head(a)) < Ord(Head(b))
    ELSE TextLess(Tail(a), Tail(b))

\* NULL sorts first in SQLite's ORDER BY
TextCellLess(a, b) ==
    IF b = NULL THEN FALSE
    ELSE IF a = NULL THEN TRUE
    ELSE TextLess(Val(a), Val(b))

\* the set S as a sequence, by rank: Rank(x) is 1 + the number of elements before x
SeqOfRanked(S, Rank(_)) ==
    [i \in 1..Cardinality(S) |-> CHOOSE x \in S : Rank(x) = i]

\* a table scan: the rows in rowid order (the first cell is the INTEGER PRIMARY KEY)
Scan(rows) ==
    LET Rank(r) == 1 + Cardinality({x \in rows : Val(x[1]) < Val(r[1])})
    IN  SeqOfRanked(rows, Rank)

\* the elements of seq that satisfy Keep, in order
RECURSIVE SelectFrom(_, _, _)
SelectFrom(seq, keep, i) ==
    IF i > Len(seq) THEN <<>>
    ELSE (IF keep[i] THEN <<seq[i]>> ELSE <<>>) \o SelectFrom(seq, keep, i + 1)

Filter(seq, Keep(_)) == SelectFrom(seq, [i \in 1..Len(seq) |-> Keep(seq[i])], 1)

\* list.sort(key=Key, reverse=True): descending by key, equal keys keep their order
SortDescStable(seq, Key(_)) ==
    LET n == Len(seq)
        Rank(i) == 1 + Cardinality({j \in 1..n :
                        \/ Key(seq[j]) > Key(seq[i])
                        \/ Key(seq[j]) = Key(seq[i]) /\ j < i})
    IN  [k \in 1..n |-> seq[CHOOSE i \in 1..n : Rank(i) = k]]

\* sum of the integers f[i], i in 1..Len(f)
RECURSIVE SumSeq(_)
SumSeq(f) == IF f = <<>> THEN 0 ELSE Head(f) + SumSeq(Tail(f))

---------------------------------------------------------------------------
(* Schema inspection: db_designer._get_table_candidates, _get_columns,
   _detect_schema, and the column-role lookups  next((c for c in cols if ...), default) *)

NoTable == ""     \* Python None for a table name
NoCol == ""       \* Python None for a column name

CanonicalCountriesCols == <<col_country_id, col_country_name, col_region>>
CanonicalElecCols ==
    <<col_record_id, col_country_id, col_year, col_population,
      col_people_without_electricity, col_people_with_electricity>>
CanonicalPopCols == <<col_pop_id, col_country_id, col_year, col_population>>

\* the table names in use and their characters
TableNames ==
    {"Countries", "countries", "ElectricityAccess", "electricity_access",
     "PopulationData", "populationdata", "QueryLogs"}

TableText ==
    [t \in TableNames |->
        CASE t = "Countries" -> <<"C", "o", "u", "n", "t", "r", "i", "e", "s">>
          [] t = "countries" -> <<"c", "o", "u", "n", "t", "r", "i", "e", "s">>
          [] t = "ElectricityAccess" -> <<"E", "l", "e", "c", "t", "r", "i", "c", "i", "t", "y", "A", "c", "c", "e", "s", "s">>
          [] t = "electricity_access" -> <<"e", "l", "e", "c", "t", "r", "i", "c", "i", "t", "y", "_", "a", "c", "c", "e", "s", "s">>
          [] t = "PopulationData" -> <<"P", "o", "p", "u", "l", "a", "t", "i", "o", "n", "D", "a", "t", "a">>
          [] t = "populationdata" -> <<"p", "o", "p", "u", "l", "a", "t", "i", "o", "n", "d", "a", "t", "a">>
          [] t = "QueryLogs" -> <<"Q", "u", "e", "r", "y", "L", "o", "g", "s">>]

\* a statement names a table whatever the case of its letters:
\* the tables of cur that  CREATE TABLE IF NOT EXISTS <name>  and
\* PRAGMA table_info(<name>)  find
LowerTable == [t \in TableNames |-> Lower(TableText[t])]
tables_named(cur, name) == {t \in DOMAIN cur : LowerTable[t] = LowerTable[name]}

\* SELECT name FROM sqlite_master WHERE type='table' AND name=?  compares the
\* name as it is spelled
table_exists(cur, name) == name \in DOMAIN cur

\* a lookup of the first candidate alone
get_table_candidates_first(cur, candidates) ==
    IF candidates # <<>> /\ table_exists(cur, candidates[1]) THEN candidates[1]
    ELSE NoTable

get_table_candidates(cur, candidates) ==
    IF \E i \in 1..Len(candidates) : table_exists(cur, candidates[i])
    THEN candidates[CHOOSE i \in 1..Len(candidates) :
            /\ table_exists(cur, candidates[i])
            /\ \A j \in 1..(i - 1) : ~table_exists(cur, candidates[j])]
    ELSE NoTable

\* PRAGMA table_info of a missing table has no rows
get_columns(cur, table) ==
    IF table = NoTable \/ tables_named(cur, table) = {} THEN <<>>
    ELSE cur[CHOOSE t \in tables_named(cur, table) : TRUE]

\* a schema resolved once, on the file that holds ElectricityAccess alone, and
\* kept whatever the tables are at the call
detect_schema_cached(cur) ==
    [countries_table |-> NoTable, elec_table |-> "ElectricityAccess",
     pop_table |-> "PopulationData",
     countries_cols |-> <<>>,
     elec_cols |-> CanonicalElecCols,
     pop_cols |-> CanonicalPopCols]

detect_schema(cur) ==
    LET c == get_table_candidates(cur, <<"Countries", "countries">>)
        e == get_table_candidates(cur, <<"ElectricityAccess", "electricity_access">>)
        p == get_table_candidates(cur, <<"PopulationData", "populationdata">>)
    IN  [countries_table |-> c, elec_table |-> e, pop_table |-> p,
         countries_cols |-> get_columns(cur, c),
         elec_cols |-> get_columns(cur, e),
         pop_cols |-> get_columns(cur, p)]

\* the first of the columns at the positions hits, default when there is none
FirstCol(cols, hits, default) ==
    IF hits = {} THEN default
    ELSE cols[CHOOSE i \in hits : \A j \in hits : i <= j]

\* next((c for c in cols if P(c)), default)
NextCol(cols, P(_), default) ==
    FirstCol(cols, {i \in 1..Len(cols) : P(cols[i])}, default)

\* the role substrings each column name contains, lower-cased
SubsOfCol ==
    [c \in ColumnNames |->
        {sub \in {s_id, s_name, s_region, s_year, s_without, s_with,
                  s_population, s_country, s_record} :
            InStr(sub, Lower(ColText[c]))}]

\* "<sub>" in c.lower()
HasSub(sub, c) == sub \in SubsOfCol[c]

\* c.lower() == "year"
IsYear(c) == Lower(ColText[c]) = s_year

id_col(cols, default) == NextCol(cols, LAMBDA c : HasSub(s_id, c), default)
name_col(cols, default) == NextCol(cols, LAMBDA c : HasSub(s_name, c), default)
region_col(cols) == NextCol(cols, LAMBDA c : HasSub(s_region, c), NoCol)
year_col(cols) == NextCol(cols, LAMBDA c : IsYear(c), col_year)
pop_col(cols, default) == NextCol(cols, LAMBDA c : HasSub(s_population, c), default)
pwe_col(cols, default) == NextCol(cols, LAMBDA c : HasSub(s_without, c), default)
pwith_col(cols, default) == NextCol(cols, LAMBDA c : HasSub(s_with, c), default)
country_fk(cols) == NextCol(cols, LAMBDA c : HasSub(s_country, c), col_country_id)
record_id_col(cols) ==
    NextCol(cols, LAMBDA c : HasSub(s_record, c),
            NextCol(cols, LAMBDA c : HasSub(s_id, c),
                    IF cols # <<>> THEN cols[1] ELSE NoCol))

\* the position of column c in cols; 0 when the table has no such column
ColIdx(cols, c) ==
    IF \E i \in 1..Len(cols) : cols[i] = c
    THEN CHOOSE i \in 1..Len(cols) : cols[i] = c
    ELSE 0

\* the cell of row r in column c
Get(cols, r, c) == r[ColIdx(cols, c)]

---------------------------------------------------------------------------
(* SQL statements on rows that are aligned with the table's column list *)

\* INSERT INTO t (names) VALUES (vals), rowid pk: a column named more than once
\* takes the value of its first occurrence, a column not named is NULL
InsertRow(cols, names, vals, pk) ==
    [i \in 1..Len(cols) |->
        IF i = 1 THEN Cell(pk)
        ELSE IF \E j \in 1..Len(names) : names[j] = cols[i]
        THEN vals[CHOOSE j \in 1..Len(names) :
                names[j] = cols[i] /\ \A k \in 1..(j - 1) : names[k] # cols[i]]
        ELSE NULL]

\* UPDATE t SET names = vals on row r: of a column assigned more than once
\* only the rightmost assignment is used
UpdateRow(cols, r, names, vals) ==
    [i \in 1..Len(cols) |->
        IF \E j \in 1..Len(names) : names[j] = cols[i]
        THEN vals[CHOOSE j \in 1..Len(names) :
                names[j] = cols[i] /\ \A k \in (j + 1)..Len(names) : names[k] # cols[i]]
        ELSE r[i]]

\* every named column is a column of the table (else: no such column)
ColsKnown(cols, names) == \A j \in 1..Len(names) : ColIdx(cols, names[j]) # 0

\* the NOT NULL columns of the canonical CREATE TABLE statements
NotNullCols ==
    {col_country_name, col_country_id, col_year, col_people_without_electricity}

NotNullOk(cols, r) ==
    \A i \in 1..Len(cols) : cols[i] \in NotNullCols => r[i] # NULL

\* the three list-building steps  if v is not None: cols.append(c); vals.append(v)
Opt(c, v) == IF v # NULL THEN <<c>> ELSE <<>>
OptVal(v) == IF v # NULL THEN <<v>> ELSE <<>>

---------------------------------------------------------------------------
(* db_designer: Countries CRUD.  A function of the source is a chain of
   operators, one per stage of its body: the table it works on, the columns
   it resolves, the statement it runs. *)

\* CREATE TABLE IF NOT EXISTS <name> (...)
CreateTable(cur, name, cols) ==
    IF tables_named(cur, name) # {} THEN cur
    ELSE [t \in DOMAIN cur \cup {name} |-> IF t = name THEN cols ELSE cur[t]]

\* AUTOINCREMENT: the rowid an INSERT draws when sqlite_sequence holds seq; an
\* INSERT OR IGNORE that is skipped and an INSERT ... ON CONFLICT DO UPDATE that
\* updates have drawn it all the same
NextId(seq) == seq + 1

\* [F(x) for x in seq]
Map(seq, F(_)) == [i \in 1..Len(seq) |-> F(seq[i])]

\* cols[0], and  cols[1] if len(cols) > 1 else cols[0]
FirstOf(cols) == IF cols # <<>> THEN cols[1] ELSE NoCol
SecondOf(cols) == IF Len(cols) > 1 THEN cols[2] ELSE FirstOf(cols)

\* INSERT OR IGNORE of row: a NOT NULL or UNIQUE(country_name) conflict skips it
add_country_insert(cur2, cols, crows, cseq, row) ==
    [tables |-> cur2,
     cseq |-> NextId(cseq),
     countries |->
        IF \/ ~NotNullOk(cols, row)
           \/ \E r \in crows :
                Get(cols, r, col_country_name) = Get(cols, row, col_country_name)
        THEN crows ELSE crows \cup {row}]

add_country_sql(cur2, cols, crows, cseq, ncol, rcol, country_name, region) ==
    add_country_insert(cur2, cols, crows, cseq,
        InsertRow(cols,
                  IF rcol # NoCol THEN <<ncol, rcol>> ELSE <<ncol>>,
                  IF rcol # NoCol THEN <<country_name, region>> ELSE <<country_name>>,
                  NextId(cseq)))

add_country_cols(cur2, cols, crows, cseq, country_name, region) ==
    add_country_sql(cur2, cols, crows, cseq, name_col(cols, col_country_name),
                    region_col(cols), country_name, region)

add_country_tbl(cur, ctbl, crows, cseq, country_name, region) ==
    IF ctbl # NoTable
    THEN add_country_cols(cur, get_columns(cur, ctbl), crows, cseq, country_name, region)
    ELSE add_country_cols(
            CreateTable(cur, "Countries", CanonicalCountriesCols),
            get_columns(CreateTable(cur, "Countries", CanonicalCountriesCols), "Countries"),
            crows, cseq, country_name, region)

\* add_country: the database after the call, [tables, countries, cseq]
add_country_db(cur, crows, cseq, country_name, region) ==
    add_country_tbl(cur, detect_schema(cur).countries_table, crows, cseq,
                    country_name, region)

\* SELECT id, name[, region] FROM ctbl ORDER BY name
get_countries_sql(cols, crows, idc, nc, rc) ==
    LET Rank(r) == 1 + Cardinality({x \in crows :
                        TextCellLess(Get(cols, x, nc), Get(cols, r, nc))})
        Row(r) == <<Get(cols, r, idc), Get(cols, r, nc)>>
                  \o (IF rc # NoCol THEN <<Get(cols, r, rc)>> ELSE <<>>)
    IN  Map(SeqOfRanked(crows, Rank), Row)

get_countries_cols(cols, crows) ==
    get_countries_sql(cols, crows, id_col(cols, FirstOf(cols)),
                      name_col(cols, SecondOf(cols)), region_col(cols))

get_countries_schema(schema, crows) ==
    IF schema.countries_table = NoTable THEN <<>>
    ELSE get_countries_cols(schema.countries_cols, crows)

\* get_countries: (id, name[, region]) ORDER BY name
get_countries(cur, crows) == get_countries_schema(detect_schema(cur), crows)

---------------------------------------------------------------------------
(* db_designer: Electricity CRUD.  Each returns the database after the call
   and the exception that left it, "None" when the call returned. *)

\* the "with" role as add_record, get_records, update_record and
\* query_yearly_trend resolve it
with_role(cols, default) == pwith_col(cols, default)

\* a lookup that finds nothing: add_record would always take its INSERT branch
Where2_none(cols, rows, c1, v1, c2, v2) == <<>>

\* rows of the table whose cells in columns c1 and c2 equal v1 and v2, in rowid order
Where2(cols, rows, c1, v1, c2, v2) ==
    Filter(Scan(rows), LAMBDA r : Get(cols, r, c1) = v1 /\ Get(cols, r, c2) = v2)

\* UPDATE etbl SET names = vals WHERE <idc> = id
UpdateWhereId(ecols, erows, idc, id, names, vals) ==
    {IF Get(ecols, r, idc) = id THEN UpdateRow(ecols, r, names, vals) ELSE r : r \in erows}

\* INSERT of row: NOT NULL and UNIQUE(country_id, year) of the canonical table
add_record_insert(cur2, ecols, erows, seq, row) ==
    IF \/ ~NotNullOk(ecols, row)
       \/ \E r \in erows : /\ Get(ecols, r, col_country_id) = Get(ecols, row, col_country_id)
                            /\ Get(ecols, r, col_year) = Get(ecols, row, col_year)
    THEN [tables |-> cur2, elec |-> erows, seq |-> seq, exc |-> "IntegrityError"]
    ELSE [tables |-> cur2, elec |-> erows \cup {row}, seq |-> seq + 1, exc |-> "None"]

\* q is the result of SELECT record_id ... WHERE <fk> = ? AND <year> = ?
add_record_stmt(cur2, ecols, erows, seq, keys, keyvals, q, names, vals) ==
    IF ~ColsKnown(ecols, <<col_record_id>> \o keys \o names)
    THEN [tables |-> cur2, elec |-> erows, seq |-> seq, exc |-> "OperationalError"]
    ELSE IF q # <<>>
    THEN IF names = <<>>
         THEN [tables |-> cur2, elec |-> erows, seq |-> seq, exc |-> "None"]
         ELSE [tables |-> cur2,
               elec |-> UpdateWhereId(ecols, erows, col_record_id,
                                      Get(ecols, q[1], col_record_id), names, vals),
               seq |-> seq, exc |-> "None"]
    ELSE add_record_insert(cur2, ecols, erows, seq,
                           InsertRow(ecols, keys \o names, keyvals \o vals, seq + 1))

add_record_sql(cur2, ecols, erows, seq, yc, pc, wc, xc, fk, country_id, year, pwe, pwith, population) ==
    add_record_stmt(cur2, ecols, erows, seq, <<fk, yc>>, <<country_id, year>>,
                    Where2(ecols, erows, fk, country_id, yc, year),
                    Opt(pc, population) \o Opt(wc, pwe) \o Opt(xc, pwith),
                    OptVal(population) \o OptVal(pwe) \o OptVal(pwith))

add_record_cols(cur2, ecols, erows, seq, country_id, year, pwe, pwith, population) ==
    add_record_sql(cur2, ecols, erows, seq,
                   year_col(ecols), pop_col(ecols, col_population),
                   pwe_col(ecols, col_people_without_electricity),
                   with_role(ecols, col_people_with_electricity),
                   country_fk(ecols),
                   country_id, year, pwe, pwith, population)

add_record_tbl(cur, etbl, erows, seq, country_id, year, pwe, pwith, population) ==
    IF etbl # NoTable
    THEN add_record_cols(cur, get_columns(cur, etbl), erows, seq,
                         country_id, year, pwe, pwith, population)
    ELSE add_record_cols(
            CreateTable(cur, "ElectricityAccess", CanonicalElecCols),
            get_columns(CreateTable(cur, "ElectricityAccess", CanonicalElecCols),
                        "ElectricityAccess"),
            erows, seq, country_id, year, pwe, pwith, population)

\* add_record: [tables, elec, seq, exc]
add_record_db(cur, erows, seq, country_id, year, pwe, pwith, population) ==
    add_record_tbl(cur, detect_schema(cur).elec_table, erows, seq,
                   country_id, year, pwe, pwith, population)

update_record_stmt(ecols, erows, idc, record_id, names, vals) ==
    IF names = <<>> THEN [elec |-> erows, exc |-> "None"]
    ELSE [elec |-> UpdateWhereId(ecols, erows, idc, record_id, names, vals),
          exc |-> "None"]

update_record_sql(ecols, erows, idc, wc, xc, pc, record_id, pwe, pwe_with, population) ==
    update_record_stmt(ecols, erows, idc, record_id,
        (IF pc # NoCol THEN Opt(pc, population) ELSE <<>>)
            \o (IF wc # NoCol THEN Opt(wc, pwe) ELSE <<>>)
            \o (IF xc # NoCol THEN Opt(xc, pwe_with) ELSE <<>>),
        (IF pc # NoCol THEN OptVal(population) ELSE <<>>)
            \o (IF wc # NoCol THEN OptVal(pwe) ELSE <<>>)
            \o (IF xc # NoCol THEN OptVal(pwe_with) ELSE <<>>))

update_record_cols(ecols, erows, record_id, pwe, pwe_with, population) ==
    IF ecols = <<>>
    THEN [elec |-> erows, exc |-> "IndexError"]       \* ecols[0]
    ELSE update_record_sql(ecols, erows, record_id_col(ecols),
                           pwe_col(ecols, NoCol), with_role(ecols, NoCol),
                           pop_col(ecols, NoCol),
                           record_id, pwe, pwe_with, population)

\* update_record: [elec, exc]
update_record_db(cur, erows, record_id, pwe, pwe_with, population) ==
    update_record_cols(detect_schema(cur).elec_cols, erows,
                       record_id, pwe, pwe_with, population)

delete_record_sql_all(ecols, erows, idc, record_id) ==
    [elec |-> {r \in erows : Get(ecols, r, idc) = NULL}, exc |-> "None"]

delete_record_sql(ecols, erows, idc, record_id) ==
    [elec |-> {r \in erows : Get(ecols, r, idc) # record_id}, exc |-> "None"]

delete_record_cols(ecols, erows, record_id) ==
    IF ecols = <<>>
    THEN [elec |-> erows, exc |-> "IndexError"]       \* ecols[0]
    ELSE delete_record_sql(ecols, erows, record_id_col(ecols), record_id)

\* delete_record: [elec, exc]
delete_record_db(cur, erows, record_id) ==
    delete_record_cols(detect_schema(cur).elec_cols, erows, record_id)

\* SELECT e.<id>, c.<name>, e.<year>, e.<pop>, COALESCE(e.<without>, 0), e.<with>
\* FROM etbl e JOIN ctbl c ON e.<fk> = c.<cid> ORDER BY c.<name>, e.<year>
get_records_sql(ecols, ccols, crows, erows, ridc, yc, pc, wc, xc, fk, cname, cid) ==
    LET Joined(x) == Get(ecols, x[1], fk) # NULL
                     /\ Get(ecols, x[1], fk) = Get(ccols, x[2], cid)
        Before(a, b) ==
            \/ TextCellLess(Get(ccols, a[2], cname), Get(ccols, b[2], cname))
            \/ /\ Get(ccols, a[2], cname) = Get(ccols, b[2], cname)
               /\ Val(Get(ecols, a[1], yc)) < Val(Get(ecols, b[1], yc))
        Rank(x) == 1 + Cardinality({y \in erows \X crows : Joined(y) /\ Before(y, x)})
        Row(x) ==
            <<Get(ecols, x[1], ridc), Get(ccols, x[2], cname), Get(ecols, x[1], yc),
              IF pc # NoCol THEN Get(ecols, x[1], pc) ELSE NULL,
              IF wc # NoCol THEN Coalesce(Get(ecols, x[1], wc), Cell(0)) ELSE Cell(0),
              IF xc # NoCol THEN Get(ecols, x[1], xc) ELSE NULL>>
    IN  Map(SeqOfRanked({x \in erows \X crows : Joined(x)}, Rank), Row)

get_records_cols(ecols, ccols, crows, erows) ==
    get_records_sql(ecols, ccols, crows, erows,
                    record_id_col(ecols), year_col(ecols), pop_col(ecols, NoCol),
                    pwe_col(ecols, NoCol), with_role(ecols, NoCol), country_fk(ecols),
                    name_col(ccols, col_country_name), id_col(ccols, col_country_id))

get_records_schema(schema, crows, erows) ==
    IF schema.elec_table = NoTable \/ schema.countries_table = NoTable
    THEN <<>>
    ELSE get_records_cols(schema.elec_cols, schema.countries_cols, crows, erows)

\* get_records(): (record_id, country_name, year, population, without, with)
get_records(cur, crows, erows) == get_records_schema(detect_schema(cur), crows, erows)

---------------------------------------------------------------------------
(* backend: record listing and the write pass-throughs *)

\* to_int_safe on a cell read from an INTEGER column: None stays None, and
\* int(float(v)) is v itself for an integer below 2^53 in magnitude
to_int_safe(v) == IF v = NULL THEN NULL ELSE Cell(Val(v))

\* the loop of get_electricity_records over a raw 6-tuple
normalize_record(r) ==
    <<r[1], r[2], r[3],
      to_int_safe(r[4]),
      IF r[5] # NULL THEN to_int_safe(r[5]) ELSE Cell(0),
      IF r[6] # NULL THEN to_int_safe(r[6]) ELSE NULL>>

\* out = [row for row in out if row[1] and s in str(row[1]).lower()]
search_records(out, search) ==
    IF search # NULL /\ Val(search) # <<>>
    THEN Filter(out, LAMBDA row :
             /\ row[2] # NULL /\ Val(row[2]) # <<>>
             /\ InStr(Lower(Strip(Val(search))), Lower(Val(row[2]))))
    ELSE out

\* get_electricity_records(search): the normalized 6-tuples; search is NULL or Cell(text)
get_electricity_records(cur, crows, erows, search) ==
    search_records(Map(get_records(cur, crows, erows), normalize_record), search)

\* the id of the first listed country whose name matches, NULL when none does
FirstId(clist, hits) ==
    IF hits = {} THEN NULL
    ELSE clist[CHOOSE i \in hits : \A j \in hits : i <= j][1]

ResolveCountry_anyname(clist, country_name) ==
    FirstId(clist, {i \in 1..Len(clist) :
        /\ Len(clist[i]) >= 2 /\ clist[i][2] # NULL
        /\ Lower(Strip(Val(clist[i][2]))) = Lower(Strip(country_name))})

ResolveCountry(clist, country_name) ==
    FirstId(clist, {i \in 1..Len(clist) :
        /\ Len(clist[i]) >= 2 /\ clist[i][2] # NULL /\ Val(clist[i][2]) # <<>>
        /\ Lower(Strip(Val(clist[i][2]))) = Lower(Strip(country_name))})

\* the outcome of db_designer.add_record, with the Countries rows of the call
add_electricity_record_rec(crows, cseq, rec) ==
    [tables |-> rec.tables, countries |-> crows, cseq |-> cseq,
     elec |-> rec.elec, seq |-> rec.seq, exc |-> rec.exc]

\* after add_country: the second lookup, the raise, the add_record
add_electricity_record_cid2(db2, erows, seq, cid, year, people_without, people_with, population) ==
    IF cid = NULL
    THEN [tables |-> db2.tables, countries |-> db2.countries, cseq |-> db2.cseq,
          elec |-> erows, seq |-> seq, exc |-> "RuntimeError"]
    ELSE add_electricity_record_rec(db2.countries, db2.cseq,
            add_record_db(db2.tables, erows, seq, cid, year,
                          people_without, people_with, population))

add_electricity_record_new(db2, erows, seq, country_name, year, people_without, people_with, population) ==
    add_electricity_record_cid2(db2, erows, seq,
        ResolveCountry(get_countries(db2.tables, db2.countries), country_name),
        year, people_without, people_with, population)

add_electricity_record_cid(cur, crows, cseq, erows, seq, cid, country_name, year, people_without, people_with, population) ==
    IF cid # NULL
    THEN add_electricity_record_rec(crows, cseq,
            add_record_db(cur, erows, seq, cid, year,
                          people_without, people_with, population))
    ELSE add_electricity_record_new(
            add_country_db(cur, crows, cseq, Cell(country_name), NULL),
            erows, seq, country_name, year, people_without, people_with, population)

\* add_electricity_record: [tables, countries, cseq, elec, seq, exc]
add_electricity_record_db(cur, crows, cseq, erows, seq, country_name, year, people_without, people_with, population) ==
    add_electricity_record_cid(cur, crows, cseq, erows, seq,
        ResolveCountry(get_countries(cur, crows), country_name),
        country_name, year, people_without, people_with, population)

---------------------------------------------------------------------------
(* data_loader.upsert_population_rows, for a country_cache of one country and a
   pop_cache of one year: one INSERT ... ON CONFLICT(country_id, year) DO UPDATE *)

POP_YEARS == 1990..2016

\* [popdata, pseq] after the statement
upsert_population_sql(pcols, prows, pseq, cid, yr, popv) ==
    [pseq |-> NextId(pseq),
     popdata |->
        IF \E r \in prows : Get(pcols, r, col_country_id) = cid /\ Get(pcols, r, col_year) = yr
        THEN {IF Get(pcols, r, col_country_id) = cid /\ Get(pcols, r, col_year) = yr
              THEN UpdateRow(pcols, r, <<col_population>>, <<popv>>)
              ELSE r : r \in prows}
        ELSE prows \cup {InsertRow(pcols, <<col_country_id, col_year, col_population>>,
                                   <<cid, yr, popv>>, NextId(pseq))}]

upsert_population_schema(schema, prows, pseq, cid, yr, popv) ==
    IF schema.pop_table = NoTable THEN [popdata |-> prows, pseq |-> pseq]
    ELSE IF Val(yr) \notin POP_YEARS \/ popv = NULL THEN [popdata |-> prows, pseq |-> pseq]
    ELSE upsert_population_sql(schema.pop_cols, prows, pseq, cid, yr, popv)

upsert_population_rows_db(cur, prows, pseq, cid, yr, popv) ==
    upsert_population_schema(detect_schema(cur), prows, pseq, cid, yr, popv)

---------------------------------------------------------------------------
(* Arithmetic of the percentages *)

\* from <<floor(num * 10^(k-1) / den), remainder>> to <<floor(num * 10^k / den), remainder>>
ScaleStep(prev, den) ==
    <<prev[1] * 10 + (prev[2] * 10) \div den, (prev[2] * 10) % den>>

\* <<floor(num * 10^k / den), the remainder>>, for num >= 0 and den > 0
RECURSIVE Scaled(_, _, _)
Scaled(num, den, k) ==
    IF k = 0 THEN <<num \div den, num % den>>
    ELSE ScaleStep(Scaled(num, den, k - 1), den)

\* to the nearest integer, an exact tie to the even one
RoundHalfEven(sc, den) ==
    IF 2 * sc[2] < den THEN sc[1]
    ELSE IF 2 * sc[2] > den THEN sc[1] + 1
    ELSE IF sc[1] % 2 = 0 THEN sc[1] ELSE sc[1] + 1

\* round(num / float(den) * 100.0, 2) in hundredths, for num >= 0 and den > 0
RoundPct(num, den) == RoundHalfEven(Scaled(num, den, 4), den)

Max(a, b) == IF a >= b THEN a ELSE b
Min(a, b) == IF a <= b THEN a ELSE b

\* the clamp  if w < 0: w = 0;  if w > p: w = p
ClampWithout_nofloor(w, p) == IF w > p THEN p ELSE w

ClampWithout(w, p) == IF Max(w, 0) > p THEN p ELSE Max(w, 0)

\* the concatenation of a sequence of sequences
RECURSIVE Concat(_)
Concat(ss) == IF ss = <<>> THEN <<>> ELSE Head(ss) \o Concat(Tail(ss))

\* a set of integers in ascending order
Ascending(S) ==
    LET Rank(x) == 1 + Cardinality({y \in S : y < x})
    IN  SeqOfRanked(S, Rank)

\* a set of text cells in ascending order
AscendingText(S) ==
    LET Rank(x) == 1 + Cardinality({y \in S : TextCellLess(y, x)})
    IN  SeqOfRanked(S, Rank)

---------------------------------------------------------------------------
(* backend: analytical queries *)

\* the pairs <<e, c>> of one e with each matching c
PairWith(e, m) == [j \in 1..Len(m) |-> <<e, m[j]>>]

\* FROM etbl e JOIN ctbl c ON e.country_id = c.<cid_col> [WHERE e.<year_col> = year]:
\* the pairs <<e, c>>, e in rowid order; year NULL means no WHERE clause
JoinEC(ecols, ccols, cidc, yc, crows, erows, year) ==
    LET Matches(e) ==
            PairWith(e, Filter(Scan(crows), LAMBDA c :
                /\ Get(ecols, e, col_country_id) # NULL
                /\ Get(ecols, e, col_country_id) = Get(ccols, c, cidc)))
    IN  Concat(Map(Filter(Scan(erows),
                          LAMBDA e : year = NULL \/ Get(ecols, e, yc) = year),
                   Matches))

\* p.population of each matching row, one NULL when no row matches
PopCells(pcols, m) ==
    IF m = <<>> THEN <<NULL>>
    ELSE [j \in 1..Len(m) |-> Get(pcols, m[j], col_population)]

\* LEFT JOIN ptbl p ON p.country_id = e.country_id AND p.year = e.<year_col>
LeftJoinPop(pcols, ecols, yc, prows, e) ==
    PopCells(pcols, Filter(Scan(prows), LAMBDA r :
        /\ Get(pcols, r, col_country_id) # NULL
        /\ Get(pcols, r, col_country_id) = Get(ecols, e, col_country_id)
        /\ Get(pcols, r, col_year) = Get(ecols, e, yc)))

\* the loop of query_high_unserved over the fetched rows
high_unserved_loop(rows) ==
    Filter(rows, LAMBDA r : r[1] # NULL /\ Val(r[1]) # <<>> /\ ~is_aggregate(r[1]))

\* the same grouping with HAVING total >= ?
high_unserved_sql_atleast(ecols, ccols, wc, cname, j, threshold) ==
    LET Total(g) == SumSeq([i \in 1..Len(j) |->
                        IF Get(ccols, j[i][2], cname) = g
                        THEN Val(Coalesce(Get(ecols, j[i][1], wc), Cell(0)))
                        ELSE 0])
        Row(g) == <<g, Total(g)>>
    IN  SortDescStable(
            Filter(Map(AscendingText({Get(ccols, j[i][2], cname) : i \in 1..Len(j)}), Row),
                   LAMBDA r : r[2] >= threshold),
            LAMBDA r : r[2])

\* SELECT name, SUM(COALESCE(without, 0)) ... GROUP BY name HAVING total > ?
\* ORDER BY total DESC, over the joined rows j
high_unserved_sql(ecols, ccols, wc, cname, j, threshold) ==
    LET Total(g) == SumSeq([i \in 1..Len(j) |->
                        IF Get(ccols, j[i][2], cname) = g
                        THEN Val(Coalesce(Get(ecols, j[i][1], wc), Cell(0)))
                        ELSE 0])
        Row(g) == <<g, Total(g)>>
    IN  SortDescStable(
            Filter(Map(AscendingText({Get(ccols, j[i][2], cname) : i \in 1..Len(j)}), Row),
                   LAMBDA r : r[2] > threshold),
            LAMBDA r : r[2])

query_high_unserved_cols(ecols, ccols, wc, cname, cidc, crows, erows, threshold) ==
    high_unserved_loop(
        high_unserved_sql(ecols, ccols, wc, cname,
                          JoinEC(ecols, ccols, cidc, NoCol, crows, erows, NULL),
                          threshold))

query_high_unserved_schema(schema, crows, erows, threshold) ==
    IF schema.elec_table = NoTable \/ schema.countries_table = NoTable
    THEN <<>>
    ELSE query_high_unserved_cols(
            schema.elec_cols, schema.countries_cols,
            pwe_col(schema.elec_cols, col_people_without_electricity),
            name_col(schema.countries_cols, SecondOf(schema.countries_cols)),
            id_col(schema.countries_cols, FirstOf(schema.countries_cols)),
            crows, erows, threshold)

\* query_high_unserved(threshold): <<country, total_without>>
query_high_unserved(cur, crows, erows, threshold) ==
    query_high_unserved_schema(detect_schema(cur), crows, erows, threshold)

\* the for loop of query_yearly_trend: negatives become 0
yearly_trend_loop(row) == <<row[1], Max(row[2], 0)>>

\* the SELECT of query_yearly_trend by the branch taken, over the rows es of etbl
yearly_trend_sql(ecols, pcols, ptbl, yc, wc, xc, pc, es, prows) ==
    LET Without(e) == Val(Coalesce(Get(ecols, e, wc), Cell(0)))
        \* the summands of one row of etbl: one per row the LEFT JOIN yields
        Terms(e) ==
            IF xc # NoCol
            THEN <<Val(Coalesce(Get(ecols, e, xc), Cell(0)))>>
            ELSE IF ptbl # NoTable /\ pc # NoCol
            THEN Map(LeftJoinPop(pcols, ecols, yc, prows, e), LAMBDA p :
                     Val(Coalesce(p, Coalesce(Get(ecols, e, pc), Cell(0)))) - Without(e))
            ELSE IF pc # NoCol
            THEN <<Val(Coalesce(Get(ecols, e, pc), Cell(0))) - Without(e)>>
            ELSE Map(LeftJoinPop(pcols, ecols, yc, prows, e), LAMBDA p :
                     Val(Coalesce(p, Cell(0))) - Without(e))
        Total(y) == SumSeq(Concat([i \in 1..Len(es) |->
                        IF Val(Get(ecols, es[i], yc)) = y THEN Terms(es[i]) ELSE <<>>]))
        Row(y) == <<y, Total(y)>>
    IN  Map(Ascending({Val(Get(ecols, es[i], yc)) : i \in 1..Len(es)}), Row)

query_yearly_trend_cols(ecols, pcols, ptbl, yc, wc, xc, pc, erows, prows) ==
    IF xc = NoCol /\ ptbl = NoTable /\ pc = NoCol THEN <<>>
    ELSE Map(yearly_trend_sql(ecols, pcols, ptbl, yc, wc, xc, pc, Scan(erows), prows),
             yearly_trend_loop)

query_yearly_trend_schema(schema, erows, prows) ==
    IF schema.elec_table = NoTable THEN <<>>
    ELSE query_yearly_trend_cols(
            schema.elec_cols, schema.pop_cols, schema.pop_table,
            year_col(schema.elec_cols),
            pwe_col(schema.elec_cols, col_people_without_electricity),
            with_role(schema.elec_cols, NoCol),
            pop_col(schema.elec_cols, NoCol),
            erows, prows)

\* query_yearly_trend(): <<year, total_with>>
query_yearly_trend(cur, erows, prows) ==
    query_yearly_trend_schema(detect_schema(cur), erows, prows)

\* the population a joined row carries, by the branch of the query's SQL:
\* COALESCE(p.population, e.<pop>), p.population alone, or e.<pop> alone
PopPreferEmbedded(ptbl, pc, ecols, e, ppop) ==
    IF pc # NoCol THEN Coalesce(Get(ecols, e, pc), ppop) ELSE ppop

PopOfRow(ptbl, pc, ecols, e, ppop) ==
    IF ptbl # NoTable /\ pc # NoCol
    THEN Coalesce(ppop, Get(ecols, e, pc))
    ELSE IF ptbl # NoTable THEN ppop
    ELSE Get(ecols, e, pc)

\* <<country row, population cell, without cell>> of the joined pair ec, one per
\* population cell ps[k] the LEFT JOIN yields
RowsOf(ec, ecols, ptbl, pc, wc, ps) ==
    [k \in 1..Len(ps) |->
        <<ec[2], PopOfRow(ptbl, pc, ecols, ec[1], ps[k]),
          Coalesce(Get(ecols, ec[1], wc), Cell(0))>>]

\* the rows the SQL of query_access_percent / query_regional_comparison reads
JoinedRows(ecols, ccols, pcols, ptbl, cidc, yc, wc, pc, crows, erows, prows, year) ==
    LET Rows(ec) ==
            RowsOf(ec, ecols, ptbl, pc, wc,
                   IF ptbl # NoTable
                   THEN LeftJoinPop(pcols, ecols, yc, prows, ec[1])
                   ELSE <<NULL>>)
    IN  Concat(Map(JoinEC(ecols, ccols, cidc, yc, crows, erows, year), Rows))

\* the row filter of query_access_percent's loop
KeepCountry_nofilter(country, pop) ==
    country # NULL /\ Val(country) # <<>> /\ pop # NULL /\ Val(pop) > 0

KeepCountry(country, pop) ==
    /\ country # NULL /\ Val(country) # <<>>
    /\ ~is_aggregate(country)
    /\ pop # NULL
    /\ Val(pop) > 0

\* rows.append((country, p, int(w), access_pct))
AccessRow_floor(country, p, w) == <<country, p, w, Scaled(p - w, p, 4)[1]>>

AccessRow(country, p, w) == <<country, p, w, RoundPct(p - w, p)>>

\* the loop of query_access_percent over the fetched rows, and the sort
access_percent_loop(ccols, cname, fetched) ==
    SortDescStable(
        Map(Filter(fetched, LAMBDA r : KeepCountry(Get(ccols, r[1], cname), r[2])),
            LAMBDA r : AccessRow(Get(ccols, r[1], cname), Val(r[2]),
                                 ClampWithout(Val(r[3]), Val(r[2])))),
        LAMBDA r : r[4])

query_access_percent_cols(ecols, ccols, pcols, ptbl, cname, wc, pc, cidc, yc, crows, erows, prows, year) ==
    IF ptbl = NoTable /\ pc = NoCol THEN <<>>
    ELSE access_percent_loop(ccols, cname,
            JoinedRows(ecols, ccols, pcols, ptbl, cidc, yc, wc, pc,
                       crows, erows, prows, year))

query_access_percent_schema(schema, crows, erows, prows, year) ==
    IF schema.elec_table = NoTable \/ schema.countries_table = NoTable
    THEN <<>>
    ELSE query_access_percent_cols(
            schema.elec_cols, schema.countries_cols, schema.pop_cols, schema.pop_table,
            name_col(schema.countries_cols, SecondOf(schema.countries_cols)),
            pwe_col(schema.elec_cols, col_people_without_electricity),
            pop_col(schema.elec_cols, NoCol),
            id_col(schema.countries_cols, FirstOf(schema.countries_cols)),
            year_col(schema.elec_cols),
            crows, erows, prows, year)

\* query_access_percent(year): <<country, population, without, access_pct>>
query_access_percent(cur, crows, erows, prows, year) ==
    query_access_percent_schema(detect_schema(cur), crows, erows, prows, year)

\* the percentage of one region from its totals, in hundredths; with tp < 0 the
\* clamp leaves tw = tp, and (tp - tw) / tp is 0
RegionPct(tp, tw) ==
    IF tp > 0 THEN Min(Max(RoundPct(tp - ClampWithout(tw, tp), tp), 0), 10000) ELSE 0

\* the mean of the per-country percentages of each region
regional_comparison_mean(ccols, rc, fetched) ==
    LET Region(r) == Cell(Strip(Val(Coalesce(Get(ccols, r[1], rc), Cell(<<>>)))))
        Counted(g) == {i \in 1..Len(fetched) :
                          /\ Region(fetched[i]) = g
                          /\ fetched[i][2] # NULL /\ Val(fetched[i][2]) > 0}
        Pct(r) == RoundPct(Val(r[2]) - ClampWithout(Val(r[3]), Val(r[2])), Val(r[2]))
        Row(g) == <<g, SumSeq([i \in 1..Len(fetched) |->
                           IF i \in Counted(g) THEN Pct(fetched[i]) ELSE 0])
                       \div Cardinality(Counted(g))>>
    IN  SortDescStable(
            Map(Filter(AscendingText({Region(fetched[i]) : i \in 1..Len(fetched)}),
                       LAMBDA g : Val(g) # <<>> /\ Counted(g) # {}),
                Row),
            LAMBDA r : r[2])

\* GROUP BY TRIM(COALESCE(c.region, '')) with the two sums, then the loop and the sort
regional_comparison_loop(ccols, rc, fetched) ==
    LET Region(r) == Cell(Strip(Val(Coalesce(Get(ccols, r[1], rc), Cell(<<>>)))))
        TotalPop(g) == SumSeq([i \in 1..Len(fetched) |->
                           IF Region(fetched[i]) = g
                           THEN Val(Coalesce(fetched[i][2], Cell(0))) ELSE 0])
        TotalWithout(g) == SumSeq([i \in 1..Len(fetched) |->
                               IF Region(fetched[i]) = g
                               THEN Val(fetched[i][3]) ELSE 0])
        Row(g) == <<g, RegionPct(TotalPop(g), TotalWithout(g))>>
    IN  SortDescStable(
            Map(Filter(AscendingText({Region(fetched[i]) : i \in 1..Len(fetched)}),
                       LAMBDA g : Val(g) # <<>> /\ TotalPop(g) # 0),
                Row),
            LAMBDA r : r[2])

query_regional_comparison_cols(ecols, ccols, pcols, ptbl, rc, wc, pc, cidc, yc, crows, erows, prows, year) ==
    IF rc = NoCol THEN <<>>
    ELSE IF ptbl = NoTable /\ pc = NoCol THEN <<>>
    ELSE regional_comparison_loop(ccols, rc,
            JoinedRows(ecols, ccols, pcols, ptbl, cidc, yc, wc, pc,
                       crows, erows, prows, year))

query_regional_comparison_schema(schema, crows, erows, prows, year) ==
    IF schema.elec_table = NoTable \/ schema.countries_table = NoTable
    THEN <<>>
    ELSE query_regional_comparison_cols(
            schema.elec_cols, schema.countries_cols, schema.pop_cols, schema.pop_table,
            region_col(schema.countries_cols),
            pwe_col(schema.elec_cols, col_people_without_electricity),
            pop_col(schema.elec_cols, NoCol),
            id_col(schema.countries_cols, FirstOf(schema.countries_cols)),
            year_col(schema.elec_cols),
            crows, erows, prows, year)

\* query_regional_comparison(year): <<region, access_pct>>
query_regional_comparison(cur, crows, erows, prows, year) ==
    query_regional_comparison_schema(detect_schema(cur), crows, erows, prows, year)

\* pop_val of get_pop_without: PopulationData's, else the record's own
PopVal(pop1, pc, ecols, eq) ==
    IF pop1 = NULL /\ pc # NoCol
    THEN (IF eq # <<>> THEN Get(ecols, eq[1], pc) ELSE NULL)
    ELSE pop1

\* pq, eq: the rows of ptbl and etbl WHERE country_id = cid AND year = y
PopWithout(ptbl, pc, wc, pcols, ecols, pq, eq) ==
    <<PopVal(IF ptbl # NoTable /\ pq # <<>>
             THEN Get(pcols, pq[1], col_population) ELSE NULL,
             pc, ecols, eq),
      IF eq # <<>> THEN Get(ecols, eq[1], wc) ELSE NULL>>

\* get_pop_without(cid, y) of query_most_improved: <<pop_val, without_val>>
get_pop_without(ecols, pcols, ptbl, pc, wc, yc, erows, prows, cid, y) ==
    PopWithout(ptbl, pc, wc, pcols, ecols,
               Where2(pcols, prows, col_country_id, cid, col_year, y),
               Where2(ecols, erows, col_country_id, cid, yc, y))

\* access_s / access_e of one <<pop_val, without_val>>, in hundredths
AccessOf(pw) ==
    RoundPct(Val(pw[1]) - ClampWithout(IF pw[2] # NULL THEN Val(pw[2]) ELSE 0, Val(pw[1])),
             Val(pw[1]))

\* the tests of query_most_improved's loop that let a country through
Improvable(cname, s, e) ==
    /\ cname # NULL /\ Val(cname) # <<>>
    /\ ~is_aggregate(cname)
    /\ s[1] # NULL /\ e[1] # NULL
    /\ Val(s[1]) > 0 /\ Val(e[1]) > 0

\* results.append((cname, access_s, access_e, improvement))
ImprovedRow_decline(cname, access_s, access_e) ==
    <<cname, access_s, access_e, access_s - access_e>>

ImprovedRow(cname, access_s, access_e) ==
    <<cname, access_s, access_e, access_e - access_s>>

query_most_improved_cols(ecols, ccols, pcols, ptbl, cidc, cname, wc, pc, yc, crows, erows, prows, start_year, end_year) ==
    LET Rank(r) == 1 + Cardinality({x \in crows :
                        TextCellLess(Get(ccols, x, cname), Get(ccols, r, cname))})
        S(c) == get_pop_without(ecols, pcols, ptbl, pc, wc, yc, erows, prows,
                                Get(ccols, c, cidc), start_year)
        E(c) == get_pop_without(ecols, pcols, ptbl, pc, wc, yc, erows, prows,
                                Get(ccols, c, cidc), end_year)
    IN  SortDescStable(
            Map(Filter(SeqOfRanked(crows, Rank),
                       LAMBDA c : Improvable(Get(ccols, c, cname), S(c), E(c))),
                LAMBDA c : ImprovedRow(Get(ccols, c, cname), AccessOf(S(c)), AccessOf(E(c)))),
            LAMBDA r : r[4])

query_most_improved_schema(schema, crows, erows, prows, start_year, end_year) ==
    IF schema.elec_table = NoTable \/ schema.countries_table = NoTable
    THEN <<>>
    ELSE query_most_improved_cols(
            schema.elec_cols, schema.countries_cols, schema.pop_cols, schema.pop_table,
            id_col(schema.countries_cols, FirstOf(schema.countries_cols)),
            name_col(schema.countries_cols, SecondOf(schema.countries_cols)),
            pwe_col(schema.elec_cols, col_people_without_electricity),
            pop_col(schema.elec_cols, NoCol),
            year_col(schema.elec_cols),
            crows, erows, prows, start_year, end_year)

\* query_most_improved(start_year, end_year):
\* <<country, access_start, access_end, improvement>>
query_most_improved(cur, crows, erows, prows, start_year, end_year) ==
    query_most_improved_schema(detect_schema(cur), crows, erows, prows,
                               start_year, end_year)

\* the string "None" that stands for a missing metric in a placeholder row
NoneText == Cell(<<"N", "o", "n", "e">>)

\* the rows whose name itself is key
CompareHits_exact(rows, key) ==
    {i \in 1..Len(rows) : Val(rows[i][1]) = key}

\* the rows whose key r[0].strip().lower() is key
CompareHits(rows, key) ==
    {i \in 1..Len(rows) : Lower(Strip(Val(rows[i][1]))) = key}

\* lookup[key] holds the last row written under key
LookupRow(rows, hits) == rows[CHOOSE i \in hits : \A j \in hits : j <= i]

\* (name, access_pct, pop, with_people, without) of a row r of query_access_percent
ComparedRow(r) ==
    <<r[1], Cell(r[4]), Cell(r[2]), Cell(Max(r[2] - r[3], 0)), Cell(r[3])>>

\* out.append(...) for one of the two names
CompareOne(rows, hits, cname) ==
    IF hits # {} THEN ComparedRow(LookupRow(rows, hits))
    ELSE <<Cell(cname), NULL, NoneText, NoneText, NoneText>>

compare_rows(rows, c1, c2) ==
    <<CompareOne(rows, CompareHits(rows, Lower(Strip(c1))), c1),
      CompareOne(rows, CompareHits(rows, Lower(Strip(c2))), c2)>>

\* query_two_country_compare(year, c1, c2):
\* <<country, access_pct, population, with_people, without_people>>
query_two_country_compare(cur, crows, erows, prows, year, c1, c2) ==
    compare_rows(query_access_percent(cur, crows, erows, prows, year), c1, c2)

---------------------------------------------------------------------------
(* The state machine.  The layer is single-threaded and synchronous: a call is
   made when no call is outstanding (last is Idle), it runs to its end in one
   step, leaving its outcome in last, and Return hands the outcome to the caller. *)

\* the caps on the AUTOINCREMENT counters of ElectricityAccess, Countries and
\* PopulationData
MaxRecordId == 2
MaxCountryId == 2
MaxPopId == 2

Names == {Testland, World}
Regions == {Cell(RegionX)}
Years == {2016, 2020}
\* <<people_without, people_with, population>> of add_electricity_record
AccessIn ==
    { <<Cell(250000), NULL, Cell(1000000)>>,
      <<Cell(-1), Cell(2000000), NULL>> }
\* <<pwe, pwe_with, population>> of update_record
UpdateIn == { <<NULL, Cell(2000000), NULL>> }
PopDataIn == {Cell(3000000)}
Thresholds == {0, 1000000}
\* <<start_year, end_year>> of query_most_improved
YearPairs == {<<2016, 2020>>, <<2020, 2016>>}
RecordIds == 1..MaxRecordId

QueryLogsCols == <<"id", "query_name", "parameters", "timestamp">>

\* init_db() on an empty database file
init_db ==
    [t \in {"Countries", "ElectricityAccess", "PopulationData", "QueryLogs"} |->
        CASE t = "Countries" -> CanonicalCountriesCols
          [] t = "ElectricityAccess" -> CanonicalElecCols
          [] t = "PopulationData" -> CanonicalPopCols
          [] OTHER -> QueryLogsCols]

Idle == [op |-> "idle", args |-> <<>>, ret |-> "None"]

Init ==
    /\ tables = init_db
    /\ countries = {}
    /\ elec = {}
    /\ popdata = {}
    /\ elec_seq = 0
    /\ country_seq = 0
    /\ pop_seq = 0
    /\ last = Idle

Returned(op, args, ret) == last' = [op |-> op, args |-> args, ret |-> ret]

add_country(country_name, region) ==
    /\ last = Idle
    /\ \E db \in {add_country_db(tables, countries, country_seq,
                                   Cell(country_name), region)} :
        /\ db.cseq <= MaxCountryId
        /\ tables' = db.tables
        /\ countries' = db.countries
        /\ country_seq' = db.cseq
    /\ UNCHANGED <<elec, popdata, elec_seq, pop_seq>>
    /\ Returned("add_country", <<country_name, region>>, "None")

add_electricity_record(country_name, year, people_without, people_with, population) ==
    /\ last = Idle
    /\ \E db \in {add_electricity_record_db(tables, countries, country_seq, elec, elec_seq,
                      country_name, Cell(year), people_without, people_with, population)} :
        /\ db.seq <= MaxRecordId
        /\ db.cseq <= MaxCountryId
        /\ tables' = db.tables
        /\ countries' = db.countries
        /\ country_seq' = db.cseq
        /\ elec' = db.elec
        /\ elec_seq' = db.seq
        /\ Returned("add_electricity_record",
                    <<country_name, year, people_without, people_with, population>>,
                    db.exc)
    /\ UNCHANGED <<popdata, pop_seq>>

update_record(record_id, pwe, pwe_with, population) ==
    /\ last = Idle
    /\ \E db \in {update_record_db(tables, elec, Cell(record_id), pwe, pwe_with,
                                   population)} :
        /\ elec' = db.elec
        /\ Returned("update_record", <<record_id, pwe, pwe_with, population>>, db.exc)
    /\ UNCHANGED <<tables, countries, popdata, elec_seq, country_seq, pop_seq>>

delete_electricity_record(record_id) ==
    /\ last = Idle
    /\ \E db \in {delete_record_db(tables, elec, Cell(record_id))} :
        /\ elec' = db.elec
        /\ Returned("delete_electricity_record", <<record_id>>, db.exc)
    /\ UNCHANGED <<tables, countries, popdata, elec_seq, country_seq, pop_seq>>

upsert_population_rows(cid, yr, popv) ==
    /\ last = Idle
    /\ \E db \in {upsert_population_rows_db(tables, popdata, pop_seq, cid, Cell(yr), popv)} :
        /\ db.pseq <= MaxPopId
        /\ popdata' = db.popdata
        /\ pop_seq' = db.pseq
    /\ UNCHANGED <<tables, countries, elec, elec_seq, country_seq>>
    /\ Returned("upsert_population_rows", <<cid, yr, popv>>, "None")

\* a read: the store is left alone and the result is returned
Read(op, args, ret) ==
    /\ last = Idle
    /\ UNCHANGED store
    /\ Returned(op, args, ret)

get_electricity_records_call ==
    Read("get_electricity_records", <<>>,
         get_electricity_records(tables, countries, elec, NULL))

query_high_unserved_call(threshold) ==
    Read("query_high_unserved", <<threshold>>,
         query_high_unserved(tables, countries, elec, threshold))

query_yearly_trend_call ==
    Read("query_yearly_trend", <<>>, query_yearly_trend(tables, elec, popdata))

query_access_percent_call(year) ==
    Read("query_access_percent", <<year>>,
         query_access_percent(tables, countries, elec, popdata, Cell(year)))

query_regional_comparison_call(year) ==
    Read("query_regional_comparison", <<year>>,
         query_regional_comparison(tables, countries, elec, popdata, Cell(year)))

query_most_improved_call(start_year, end_year) ==
    Read("query_most_improved", <<start_year, end_year>>,
         query_most_improved(tables, countries, elec, popdata,
                             Cell(start_year), Cell(end_year)))

\* the caller takes the outcome of the call
Return ==
    /\ last # Idle
    /\ last' = Idle
    /\ UNCHANGED store

\* the countries the population file has rows for
PopCountryIds == {r[1] : r \in {c \in countries : c[2] = Cell(Testland)}}

Next ==
    \/ \E n \in Names, g \in Regions : add_country(n, g)
    \/ \E n \in Names, y \in Years, a \in AccessIn :
          add_electricity_record(n, y, a[1], a[2], a[3])
    \/ \E id \in RecordIds, u \in UpdateIn : update_record(id, u[1], u[2], u[3])
    \/ \E id \in RecordIds : delete_electricity_record(id)
    \/ \E c \in PopCountryIds, y \in Years, v \in PopDataIn : upsert_population_rows(c, y, v)
    \/ get_electricity_records_call
    \/ \E t \in Thresholds : query_high_unserved_call(t)
    \/ query_yearly_trend_call
    \/ \E y \in Years : query_access_percent_call(y)
    \/ \E y \in Years : query_regional_comparison_call(y)
    \/ \E yy \in YearPairs : query_most_improved_call(yy[1], yy[2])
    \/ Return

Spec == Init /\ [][Next]_vars

---------------------------------------------------------------------------
(* backend._is_aggregate on its own: the name is drawn, then the function is
   applied to it. *)

\* the longest name drawn letter by letter
MaxNameLen == 3

\* the letters of the keyword "ida" in both cases, and the blank
NameLetters == {"i", "d", "a", "I", "D", "A", " "}

AggregateNames ==
    {NULL}
    \cup {Cell(t) : t \in UNION {[1..n -> NameLetters] : n \in 0..MaxNameLen}}
    \cup {Cell(World), Cell(Kenya), Cell(Testland),
          Cell(<<"W", "O", "R", "L", "D">>),
          Cell(<<" ", "w", "o", "r", "l", "d", " ">>),
          Cell(<<"H", "i", "g", "h", " ", "i", "n", "c", "o", "m", "e">>),
          Cell(<<"H", "i", "g", "h", "i", "n", "c", "o", "m">>),
          Cell(<<"S", "m", "a", "l", "l", " ", "S", "T", "A", "T", "E", "S">>),
          Cell(<<"I", "n", "d", "i", "a">>),
          Cell(<<"C", "h", "a", "d">>)}

InitAgg ==
    /\ tables = init_db
    /\ countries = {}
    /\ elec = {}
    /\ popdata = {}
    /\ elec_seq = 0
    /\ country_seq = 0
    /\ pop_seq = 0
    /\ last \in {[op |-> "name", args |-> <<name>>, ret |-> "None"] :
                    name \in AggregateNames}

is_aggregate_call ==
    /\ last.op = "name"
    /\ UNCHANGED store
    /\ Returned("is_aggregate", last.args, is_aggregate(last.args[1]))

NextAgg == is_aggregate_call

SpecAgg == InitAgg /\ [][NextAgg]_vars

---------------------------------------------------------------------------
(* The queries over stores that hold two countries a query lists, in one
   region or in two. *)

RegionY == <<"R", "e", "g", "i", "o", "n", "Y">>

\* <<country_name, region>> of add_country
RankCountries ==
    {<<Testland, Cell(RegionX)>>, <<Kenya, Cell(RegionX)>>, <<Kenya, Cell(RegionY)>>}
RankNames == {Testland, Kenya}
\* <<people_without, people_with, population>> of add_electricity_record
RankAccessIn ==
    { <<Cell(0), NULL, Cell(100)>>,
      <<Cell(900), NULL, Cell(900)>>,
      <<Cell(1000), NULL, Cell(900)>> }
RankThresholds == {0, 900}
\* <<c1, c2>> of query_two_country_compare
CompareIn ==
    { <<<<" ", "T", "E", "S", "T", "L", "A", "N", "D", " ">>, Kenya>>,
      <<World, <<"k", "e", "n", "y", "a">>>> }

query_two_country_compare_call(year, c1, c2) ==
    Read("query_two_country_compare", <<year, c1, c2>>,
         query_two_country_compare(tables, countries, elec, popdata, Cell(year), c1, c2))

NextRank ==
    \/ \E cr \in RankCountries : add_country(cr[1], cr[2])
    \/ \E n \in RankNames, y \in Years, a \in RankAccessIn :
          add_electricity_record(n, y, a[1], a[2], a[3])
    \/ \E c \in countries, y \in Years, v \in PopDataIn :
          upsert_population_rows(c[1], y, v)
    \/ \E t \in RankThresholds : query_high_unserved_call(t)
    \/ \E y \in Years : query_regional_comparison_call(y)
    \/ \E yy \in YearPairs : query_most_improved_call(yy[1], yy[2])
    \/ \E y \in Years, cc \in CompareIn : query_two_country_compare_call(y, cc[1], cc[2])
    \/ Return

SpecRank == Init /\ [][NextRank]_vars

---------------------------------------------------------------------------
(* Database files that held tables before init_db ran: init_db creates the
   canonical tables only when neither Countries nor ElectricityAccess is there. *)

\* if not countries_tbl and not electricity_tbl: the three CREATE TABLEs
init_db_canonical(cur, countries_tbl, electricity_tbl) ==
    IF countries_tbl = NoTable /\ electricity_tbl = NoTable
    THEN CreateTable(CreateTable(CreateTable(cur,
            "Countries", CanonicalCountriesCols),
            "ElectricityAccess", CanonicalElecCols),
            "PopulationData", CanonicalPopCols)
    ELSE cur

\* if not pop_tbl: CREATE TABLE IF NOT EXISTS PopulationData
init_db_pop(cur, pop_tbl) ==
    IF pop_tbl = NoTable THEN CreateTable(cur, "PopulationData", CanonicalPopCols)
    ELSE cur

\* if electricity_tbl: ALTER TABLE ... ADD COLUMN population when it has none
init_db_alter(cur, electricity_tbl) ==
    IF electricity_tbl = NoTable THEN cur
    ELSE IF \E i \in 1..Len(cur[electricity_tbl]) :
                Lower(ColText[cur[electricity_tbl][i]]) = s_population
    THEN cur
    ELSE [cur EXCEPT ![electricity_tbl] = Append(@, col_population)]

init_db_tables(cur, countries_tbl, electricity_tbl, pop_tbl) ==
    CreateTable(
        init_db_alter(init_db_pop(init_db_canonical(cur, countries_tbl, electricity_tbl),
                                  pop_tbl),
                      electricity_tbl),
        "QueryLogs", QueryLogsCols)

\* init_db() on a database file that holds the tables cur
init_db_on(cur) ==
    init_db_tables(cur,
        get_table_candidates(cur, <<"Countries", "countries">>),
        get_table_candidates(cur, <<"ElectricityAccess", "electricity_access">>),
        get_table_candidates(cur, <<"PopulationData", "populationdata">>))

\* the database files: <<tables, Countries rows, ElectricityAccess rows>>
LegacyFiles ==
    { << [t \in {"ElectricityAccess"} |-> CanonicalElecCols], {},
         {<<Cell(1), Cell(1), Cell(2016), Cell(4000000), Cell(250000), NULL>>} >>,
      << [t \in {"Countries"} |-> CanonicalCountriesCols],
         {<<Cell(1), Cell(Testland), Cell(RegionX)>>}, {} >>,
      << [t \in {"PopulationData"} |-> CanonicalPopCols], {}, {} >> }

InitLegacy ==
    \E f \in LegacyFiles :
        /\ tables = init_db_on(f[1])
        /\ countries = f[2]
        /\ elec = f[3]
        /\ popdata = {}
        /\ elec_seq = Cardinality(f[3])
        /\ country_seq = Cardinality(f[2])
        /\ pop_seq = 0
        /\ last = Idle

get_countries_call ==
    Read("get_countries", <<>>, get_countries(tables, countries))

NextLegacy ==
    \/ \E n \in Names, g \in Regions : add_country(n, g)
    \/ \E n \in Names, y \in Years, a \in AccessIn :
          add_electricity_record(n, y, a[1], a[2], a[3])
    \/ \E id \in RecordIds, u \in UpdateIn : update_record(id, u[1], u[2], u[3])
    \/ \E id \in RecordIds : delete_electricity_record(id)
    \/ get_countries_call
    \/ get_electricity_records_call
    \/ \E t \in Thresholds : query_high_unserved_call(t)
    \/ query_yearly_trend_call
    \/ \E y \in Years : query_access_percent_call(y)
    \/ \E y \in Years : query_regional_comparison_call(y)
    \/ \E yy \in YearPairs : query_most_improved_call(yy[1], yy[2])
    \/ Return

SpecLegacy == InitLegacy /\ [][NextLegacy]_vars

---------------------------------------------------------------------------
(* A database file whose tables bear the lowercase names, with one country
   and one record of it. *)

LowerFile ==
    [t \in {"countries", "electricity_access"} |->
        IF t = "countries" THEN CanonicalCountriesCols ELSE CanonicalElecCols]

InitLower ==
    /\ tables = init_db_on(LowerFile)
    /\ countries = {<<Cell(1), Cell(Testland), Cell(RegionX)>>}
    /\ elec = {<<Cell(1), Cell(1), Cell(2016), Cell(1000000), Cell(250000), NULL>>}
    /\ popdata = {}
    /\ elec_seq = 1
    /\ country_seq = 1
    /\ pop_seq = 0
    /\ last = Idle

NextLower ==
    \/ \E n \in RankNames, g \in Regions : add_country(n, g)
    \/ \E n \in RankNames, y \in Years, a \in AccessIn :
          add_electricity_record(n, y, a[1], a[2], a[3])
    \/ \E c \in countries, y \in Years, v \in PopDataIn :
          upsert_population_rows(c[1], y, v)
    \/ \E t \in Thresholds : query_high_unserved_call(t)
    \/ query_yearly_trend_call
    \/ \E y \in Years : query_access_percent_call(y)
    \/ \E y \in Years : query_regional_comparison_call(y)
    \/ \E yy \in YearPairs : query_most_improved_call(yy[1], yy[2])
    \/ \E y \in Years, cc \in CompareIn : query_two_country_compare_call(y, cc[1], cc[2])
    \/ Return

SpecLower == InitLower /\ [][NextLower]_vars

---------------------------------------------------------------------------
(* Country names that differ only in case, and the empty name. *)

testland == <<"t", "e", "s", "t", "l", "a", "n", "d">>
Empty == <<>>
CaseNames == {Testland, testland, Empty}
\* <<people_without, people_with, population>> of add_electricity_record
CaseAccessIn ==
    { <<Cell(250000), NULL, Cell(1000000)>>,
      <<NULL, NULL, Cell(1000000)>> }

NextCase ==
    \/ \E n \in CaseNames, g \in Regions : add_country(n, g)
    \/ \E n \in CaseNames, y \in Years, a \in CaseAccessIn :
          add_electricity_record(n, y, a[1], a[2], a[3])
    \/ get_countries_call
    \/ get_electricity_records_call
    \/ Return

SpecCase == Init /\ [][NextCase]_vars

---------------------------------------------------------------------------
(* The record normalizers on raw rows.  A raw value is None, a number or a
   text, as a store with dynamically typed columns hands them out. *)

NoneV == [kind |-> "none", num |-> 0, text |-> <<>>]
IntV(n) == [kind |-> "int", num |-> n, text |-> <<>>]
StrV(t) == [kind |-> "str", num |-> 0, text |-> t]

DigitChars == <<"0", "1", "2", "3", "4", "5", "6", "7", "8", "9">>
Digits == {DigitChars[i] : i \in DOMAIN DigitChars}
DigitVal(c) == (CHOOSE i \in DOMAIN DigitChars : DigitChars[i] = c) - 1

\* str.lower() on a text with digits and punctuation
LowerText(s) ==
    [i \in 1..Len(s) |-> IF s[i] \in DOMAIN LowerMap THEN LowerMap[s[i]] ELSE s[i]]

AllDigits(s) == \A i \in 1..Len(s) : s[i] \in Digits

RECURSIVE DigitsValue(_)
DigitsValue(s) ==
    IF s = <<>> THEN 0
    ELSE 10 * DigitsValue(SubSeq(s, 1, Len(s) - 1)) + DigitVal(s[Len(s)])

\* an unsigned decimal literal: digits, at most one point, one digit at least;
\* whole is the part before the point
Unsigned(s) ==
    LET dots == {i \in 1..Len(s) : s[i] = "."}
    IN  IF dots = {}
        THEN [ok |-> s # <<>> /\ AllDigits(s), whole |-> s]
        ELSE LET d == CHOOSE i \in dots : \A j \in dots : i <= j
                 w == SubSeq(s, 1, d - 1)
                 f == SubSeq(s, d + 1, Len(s))
             IN  [ok |-> AllDigits(w) /\ AllDigits(f) /\ Len(w) + Len(f) > 0,
                  whole |-> w]

\* int(float(text)): blanks around the literal are dropped, a sign is read,
\* the value is truncated toward zero; NoneV stands for the ValueError.
\* Exponents, "inf", "nan" and underscores are not among the texts modelled.
int_of_float(t) ==
    LET s == Strip(t)
        signed == s # <<>> /\ Head(s) \in {"-", "+"}
        body == IF signed THEN Tail(s) ELSE s
        u == Unsigned(body)
    IN  IF ~u.ok THEN NoneV
        ELSE IF signed /\ Head(s) = "-" THEN IntV(0 - DigitsValue(u.whole))
        ELSE IntV(DigitsValue(u.whole))

s_none == <<"n", "o", "n", "e">>
s_null == <<"n", "u", "l", "l">>

\* backend: the defensive unpacking of a raw row into
\* <<rec_id, country, year, population, without, with_>>
unpack_row(r) ==
    IF Len(r) >= 6 THEN SubSeq(r, 1, 6)
    ELSE IF Len(r) = 5 THEN <<r[1], r[2], r[3], NoneV, r[4], r[5]>>
    ELSE IF Len(r) = 4 THEN <<r[1], r[2], r[3], NoneV, r[4], NoneV>>
    ELSE [i \in 1..6 |-> IF i <= Len(r) THEN r[i] ELSE NoneV]

\* backend: if isinstance(v, str) and v.lower() == "none": v = None
none_sentinel(v) ==
    IF v.kind = "str" /\ LowerText(v.text) = s_none THEN NoneV ELSE v

\* backend: to_int_safe on any raw value
to_int_safe_any(v) ==
    IF v.kind = "none" THEN NoneV
    ELSE IF v.kind = "int" THEN IntV(v.num)
    ELSE int_of_float(v.text)

\* backend: the record appended for one raw row
normalize_fields(rec_id, country, year, population, without, with_) ==
    <<rec_id, country, year,
      to_int_safe_any(population),
      IF without # NoneV THEN to_int_safe_any(without) ELSE IntV(0),
      IF with_ # NoneV THEN to_int_safe_any(with_) ELSE NoneV>>

normalize_raw(r) ==
    LET u == unpack_row(r)
    IN  normalize_fields(u[1], u[2], u[3],
                         none_sentinel(u[4]), none_sentinel(u[5]), none_sentinel(u[6]))

\* frontend: s.replace(",", "")
RECURSIVE RemoveCommas(_)
RemoveCommas(s) ==
    IF s = <<>> THEN <<>>
    ELSE IF Head(s) = "," THEN RemoveCommas(Tail(s))
    ELSE <<Head(s)>> \o RemoveCommas(Tail(s))

\* frontend: the parse of one numeric-like field
parse_field(v) ==
    IF v.kind = "none" THEN NoneV
    ELSE IF v.kind = "int" THEN IntV(v.num)
    ELSE LET s == Strip(v.text)
         IN  IF LowerText(s) \in {s_none, s_null, <<>>} THEN NoneV
             ELSE int_of_float(RemoveCommas(s))

\* frontend: the positions of a raw row, as
\* <<id, country, year, population, without, with>>
row_positions(r) ==
    IF Len(r) >= 6 THEN SubSeq(r, 1, 6)
    ELSE IF Len(r) = 5 THEN <<r[1], r[2], r[3], NoneV, r[4], r[5]>>
    ELSE IF Len(r) = 4 THEN <<r[1], r[2], r[3], NoneV, r[4], NoneV>>
    ELSE [i \in 1..6 |-> IF i <= Len(r) /\ i <= 4 THEN r[i] ELSE NoneV]

\* frontend: normalize_row, the dict listed in the order of its keys
normalize_row(r) ==
    LET res == row_positions(r)
    IN  <<res[1], res[2], res[3],
          parse_field(res[4]), parse_field(res[5]), parse_field(res[6])>>

RawTexts ==
    { <<"N", "o", "n", "e">>, <<"n", "u", "l", "l">>, <<>>,
      <<"a", "b", "c">>, <<"1", "2">>, <<" ", "7", " ">>,
      <<"1", "2", ".", "7">>, <<"-", "3">>, <<"1", ",", "0", "0", "0">> }

RawNumbers == {0, 250000}

RawValues == {NoneV} \cup {IntV(n) : n \in RawNumbers} \cup {StrV(t) : t \in RawTexts}

RowHead == <<IntV(1), StrV(Testland), IntV(2016)>>

\* raw rows of three to six fields
RawRows ==
    {RowHead}
    \cup {RowHead \o <<w>> : w \in RawValues}
    \cup {RowHead \o <<w, x>> : w \in RawValues, x \in RawValues}
    \cup {RowHead \o <<p, w, x>> : p \in RawValues, w \in RawValues, x \in RawValues}

InitNorm ==
    /\ tables = init_db
    /\ countries = {}
    /\ elec = {}
    /\ popdata = {}
    /\ elec_seq = 0
    /\ country_seq = 0
    /\ pop_seq = 0
    /\ last \in {[op |-> "row", args |-> <<r>>, ret |-> "None"] : r \in RawRows}

\* the backend normalizer on a raw row
normalize_call ==
    /\ last.op = "row"
    /\ UNCHANGED store
    /\ Returned("normalize", last.args, normalize_raw(last.args[1]))

\* the backend normalizer on a record it produced
renormalize_call ==
    /\ last.op = "normalize"
    /\ UNCHANGED store
    /\ Returned("normalize", <<last.ret>>, normalize_raw(last.ret))

\* the frontend normalizer on a raw row
normalize_row_call ==
    /\ last.op = "row"
    /\ UNCHANGED store
    /\ Returned("normalize_row", last.args, normalize_row(last.args[1]))

\* the frontend normalizer on a record it produced
renormalize_row_call ==
    /\ last.op = "normalize_row"
    /\ UNCHANGED store
    /\ Returned("normalize_row", <<last.ret>>, normalize_row(last.ret))

NextNorm ==
    \/ normalize_call
    \/ renormalize_call
    \/ normalize_row_call
    \/ renormalize_row_call

SpecNorm == InitNorm /\ [][NextNorm]_vars

---------------------------------------------------------------------------
(* data_loader.load_data.  A row of the electricity CSV is
   <<Entity, Code, Year, people without>>, each a text; a row of the population
   CSV is <<Country Code, [year column |-> text]>>.  The database of a run is
   [tables, countries, cseq, elec, seq, popdata, pseq]. *)

s_pop == <<"p", "o", "p">>
s_NONE == <<"N", "O", "N", "E">>
TST == <<"T", "S", "T">>
KEN == <<"K", "E", "N">>
KNY == <<"K", "N", "Y">>

\* int(float(val)) of a population cell: None when empty or not a number
pop_value(val) ==
    IF val = <<>> \/ int_of_float(val) = NoneV THEN NULL
    ELSE Cell(int_of_float(val).num)

\* load_population_csv: pop_cache, as the codes in order of insertion and
\* code -> year -> population, for the year columns within POP_YEARS
RECURSIVE load_population_csv(_, _)
load_population_csv(rows, cache) ==
    IF rows = <<>> THEN cache
    ELSE IF Strip(Head(rows)[1]) = <<>> \/ DOMAIN Head(rows)[2] \cap POP_YEARS = {}
    THEN load_population_csv(Tail(rows), cache)
    ELSE load_population_csv(Tail(rows),
            [codes |-> IF Strip(Head(rows)[1]) \in DOMAIN cache.map THEN cache.codes
                       ELSE Append(cache.codes, Strip(Head(rows)[1])),
             map |-> [c \in DOMAIN cache.map \cup {Strip(Head(rows)[1])} |->
                        IF c = Strip(Head(rows)[1])
                        THEN [y \in DOMAIN Head(rows)[2] \cap POP_YEARS |->
                                pop_value(Head(rows)[2][y])]
                        ELSE cache.map[c]]])

EmptyCache == [codes |-> <<>>, map |-> <<>>]

\* pop_cache[code].get(year) when  code and code in pop_cache
cache_has(pop_cache, code) == code # <<>> /\ code \in DOMAIN pop_cache.map
cache_get(pop_cache, code, year) ==
    IF year \in DOMAIN pop_cache.map[code] THEN pop_cache.map[code][year] ELSE NULL

\* ent = (r.get("Entity") or "").strip() or "NONE"
entity_of(r) == IF Strip(r[1]) = <<>> THEN s_NONE ELSE Strip(r[1])

\* the entities of the file, in order of first appearance
RECURSIVE entities_of(_, _)
entities_of(rows, entities) ==
    IF rows = <<>> THEN entities
    ELSE entities_of(Tail(rows),
            IF \E i \in 1..Len(entities) : entities[i] = entity_of(Head(rows))
            THEN entities
            ELSE Append(entities, entity_of(Head(rows))))

\* the first non-empty Code among the rows of the entity, else ""
sample_code(rows, ent) ==
    IF \E i \in 1..Len(rows) : Strip(rows[i][1]) = ent /\ Strip(rows[i][2]) # <<>>
    THEN Strip(rows[CHOOSE i \in 1..Len(rows) :
            /\ Strip(rows[i][1]) = ent /\ Strip(rows[i][2]) # <<>>
            /\ \A j \in 1..(i - 1) :
                  ~(Strip(rows[j][1]) = ent /\ Strip(rows[j][2]) # <<>>)][2])
    ELSE <<>>

\* SELECT cid FROM ctbl WHERE name = ?, and the INSERT when there is no row:
\* [countries, cseq, cid]
load_country_sql(ccols, crows, cseq, q, cname_col, cid_col, ent) ==
    IF q # <<>>
    THEN [countries |-> crows, cseq |-> cseq, cid |-> Get(ccols, q[1], cid_col)]
    ELSE [countries |-> crows \cup {InsertRow(ccols, <<cname_col, col_region>>,
                                              <<Cell(ent), NULL>>, NextId(cseq))},
          cseq |-> NextId(cseq), cid |-> Cell(NextId(cseq))]

load_country(ccols, crows, cseq, ent) ==
    load_country_sql(ccols, crows, cseq,
        Filter(Scan(crows), LAMBDA r :
            Get(ccols, r, name_col(ccols, SecondOf(ccols))) = Cell(ent)),
        name_col(ccols, SecondOf(ccols)), id_col(ccols, FirstOf(ccols)), ent)

\* the loop over the entities: [countries, cseq, cache], cache the
\* country_cache as <<entity, country_id, sample_code>> in order of insertion
RECURSIVE load_countries(_, _, _, _)
load_countries(ccols, rows, entities, acc) ==
    IF entities = <<>> THEN acc
    ELSE load_countries(ccols, rows, Tail(entities),
            [countries |-> load_country(ccols, acc.countries, acc.cseq, Head(entities)).countries,
             cseq |-> load_country(ccols, acc.countries, acc.cseq, Head(entities)).cseq,
             cache |-> Append(acc.cache,
                <<Head(entities),
                  load_country(ccols, acc.countries, acc.cseq, Head(entities)).cid,
                  sample_code(rows, Head(entities))>>)])

\* code_to_cids.get(code, [])
cids_of(cache, code) ==
    Map(Filter(cache, LAMBDA e : e[3] = code), LAMBDA e : e[2])

\* the upserts of upsert_population_rows, <<cid, yr, popv>>, in the order of
\* its three loops
population_upserts(cache, pop_cache) ==
    Concat([i \in 1..Len(pop_cache.codes) |->
        Concat([j \in 1..Len(cids_of(cache, pop_cache.codes[i])) |->
            [k \in 1..Len(Ascending(DOMAIN pop_cache.map[pop_cache.codes[i]])) |->
                <<cids_of(cache, pop_cache.codes[i])[j],
                  Ascending(DOMAIN pop_cache.map[pop_cache.codes[i]])[k],
                  pop_cache.map[pop_cache.codes[i]]
                      [Ascending(DOMAIN pop_cache.map[pop_cache.codes[i]])[k]]>>]])])

\* upsert_population_rows on the whole pop_cache: [popdata, pseq]
RECURSIVE upsert_population_all(_, _, _)
upsert_population_all(schema, stmts, acc) ==
    IF stmts = <<>> THEN acc
    ELSE upsert_population_all(schema, Tail(stmts),
            upsert_population_schema(schema, acc.popdata, acc.pseq,
                Head(stmts)[1], Cell(Head(stmts)[2]), Head(stmts)[3]))

\* int(r.get("Year")): NoneV stands for the exception that skips the row
int_of_year(t) ==
    IF Unsigned(Strip(t)).ok /\ AllDigits(Strip(t)) THEN IntV(DigitsValue(Strip(t)))
    ELSE NoneV

\* pwe = int(float(raw)) if raw not in (None, "") else 0; 0 on an exception
pwe_of(raw) ==
    IF raw = <<>> \/ int_of_float(raw) = NoneV THEN 0 ELSE int_of_float(raw).num

\* next((c for c in pop_cols if "pop" in c.lower()), "population")
pop_table_val(pop_cols) ==
    NextCol(pop_cols, LAMBDA c : InStr(s_pop, Lower(ColText[c])), col_population)

\* SELECT <pop_table_val> FROM ptable WHERE country_id = ? AND year = ?
select_population(schema, prows, cid, year) ==
    IF schema.pop_table = NoTable THEN NULL
    ELSE IF Where2(schema.pop_cols, prows, country_fk(schema.pop_cols), cid,
                   year_col(schema.pop_cols), year) = <<>>
    THEN NULL
    ELSE Get(schema.pop_cols,
             Where2(schema.pop_cols, prows, country_fk(schema.pop_cols), cid,
                    year_col(schema.pop_cols), year)[1],
             pop_table_val(schema.pop_cols))

\* popv: the cached population of the code, else the PopulationData cell
popv_of(schema, prows, pop_cache, code, cid, year) ==
    IF cache_has(pop_cache, code) THEN cache_get(pop_cache, code, year)
    ELSE select_population(schema, prows, cid, Cell(year))

\* pwith: population - without when that is not negative, else None
derive_pwith(popv, pwe) ==
    IF popv # NULL /\ Val(popv) - pwe >= 0 THEN Cell(Val(popv) - pwe) ELSE NULL

\* the "with" column of the loader's statements
pwith_col_db(ecols) == NextCol(ecols, LAMBDA c : HasSub(s_with, c), col_people_with_electricity)

\* the rows whose (country, year) a new row conflicts with
upsert_conflict_none(ecols, erows, fk, cid, yc, year) == <<>>

upsert_conflict(ecols, erows, fk, cid, yc, year) == Where2(ecols, erows, fk, cid, yc, year)

\* INSERT INTO etbl (keys, names) VALUES (...) ON CONFLICT(fk, year) DO UPDATE
\* SET name = excluded.name for the names: [elec, seq]
upsert_record_sql(ecols, erows, seq, q, new, names) ==
    [seq |-> NextId(seq),
     elec |->
        IF q = <<>> THEN erows \cup {new}
        ELSE {IF r = q[1]
              THEN UpdateRow(ecols, r, names, [i \in 1..Len(names) |-> Get(ecols, new, names[i])])
              ELSE r : r \in erows}]

upsert_record_stmt(ecols, erows, seq, fk, yc, cid, year, names, vals) ==
    upsert_record_sql(ecols, erows, seq,
        upsert_conflict(ecols, erows, fk, cid, yc, Cell(year)),
        InsertRow(ecols, <<fk, yc>> \o names, <<cid, Cell(year)>> \o vals, NextId(seq)),
        names)

\* the statements of the loop, chosen by pwith and popv (pwith is None
\* whenever popv is, so the third of the four is never run)
upsert_record(ecols, erows, seq, cid, year, popv, pwe, pwith) ==
    upsert_record_stmt(ecols, erows, seq, country_fk(ecols), year_col(ecols), cid, year,
        IF pwith # NULL /\ popv # NULL
        THEN <<pop_col(ecols, col_population),
               pwe_col(ecols, col_people_without_electricity), pwith_col_db(ecols)>>
        ELSE IF popv # NULL
        THEN <<pop_col(ecols, col_population),
               pwe_col(ecols, col_people_without_electricity)>>
        ELSE <<pwe_col(ecols, col_people_without_electricity)>>,
        IF pwith # NULL /\ popv # NULL THEN <<popv, Cell(pwe), pwith>>
        ELSE IF popv # NULL THEN <<popv, Cell(pwe)>>
        ELSE <<Cell(pwe)>>)

\* the PopulationData upsert that ends an iteration: [popdata, pseq]
store_cached(schema, prows, pseq, pop_cache, code, cid, year) ==
    IF /\ cache_has(pop_cache, code)
       /\ cache_get(pop_cache, code, year) # NULL
       /\ schema.pop_table # NoTable
    THEN upsert_population_sql(schema.pop_cols, prows, pseq, cid, Cell(year),
                               cache_get(pop_cache, code, year))
    ELSE [popdata |-> prows, pseq |-> pseq]

\* the country_id the country_cache holds for the entity; every entity of the
\* file is in it, so the fallback INSERT of the loop is never run
cid_of(cache, ent) == cache[CHOOSE i \in 1..Len(cache) : cache[i][1] = ent][2]

\* one iteration of the loop over the electricity rows, for a row whose Year
\* is the integer year: [elec, seq, popdata, pseq]
load_row_values(schema, acc, pop_cache, code, cid, year, pwe, popv) ==
    [elec |-> upsert_record(schema.elec_cols, acc.elec, acc.seq, cid, year, popv, pwe,
                            derive_pwith(popv, pwe)).elec,
     seq |-> upsert_record(schema.elec_cols, acc.elec, acc.seq, cid, year, popv, pwe,
                           derive_pwith(popv, pwe)).seq,
     popdata |-> store_cached(schema, acc.popdata, acc.pseq, pop_cache, code, cid, year).popdata,
     pseq |-> store_cached(schema, acc.popdata, acc.pseq, pop_cache, code, cid, year).pseq]

load_row(schema, acc, cache, pop_cache, r) ==
    IF int_of_year(r[3]) = NoneV THEN acc
    ELSE load_row_values(schema, acc, pop_cache, Strip(r[2]),
            cid_of(cache, entity_of(r)), int_of_year(r[3]).num, pwe_of(r[4]),
            popv_of(schema, acc.popdata, pop_cache, Strip(r[2]),
                    cid_of(cache, entity_of(r)), int_of_year(r[3]).num))

RECURSIVE load_rows(_, _, _, _, _)
load_rows(schema, acc, cache, pop_cache, rows) ==
    IF rows = <<>> THEN acc
    ELSE load_rows(schema, load_row(schema, acc, cache, pop_cache, Head(rows)),
                   cache, pop_cache, Tail(rows))

\* after the countries: the population upserts, then the electricity rows
load_data_records(schema, c, erows, seq, p, pop_cache, rows) ==
    [countries |-> c.countries, cseq |-> c.cseq] @@
    load_rows(schema, [elec |-> erows, seq |-> seq, popdata |-> p.popdata, pseq |-> p.pseq],
              c.cache, pop_cache, rows)

load_data_countries(schema, c, erows, seq, prows, pseq, pop_cache, rows) ==
    load_data_records(schema, c, erows, seq,
        IF pop_cache.codes # <<>>
        THEN upsert_population_all(schema, population_upserts(c.cache, pop_cache),
                                   [popdata |-> prows, pseq |-> pseq])
        ELSE [popdata |-> prows, pseq |-> pseq],
        pop_cache, rows)

load_data_schema(schema, crows, cseq, erows, seq, prows, pseq, pop_cache, rows) ==
    load_data_countries(schema,
        load_countries(schema.countries_cols, rows, entities_of(rows, <<>>),
                       [countries |-> crows, cseq |-> cseq, cache |-> <<>>]),
        erows, seq, prows, pseq, pop_cache, rows)

\* load_data on the files f = [elec, pop]: the rows and counters after the run,
\* [countries, cseq, elec, seq, popdata, pseq]
load_data_db(cur, crows, cseq, erows, seq, prows, pseq, f) ==
    load_data_schema(detect_schema(init_db_on(cur)), crows, cseq, erows, seq, prows, pseq,
                     load_population_csv(f.pop, EmptyCache), f.elec)

\* the cap on ElectricityAccess's AUTOINCREMENT counter under the loader,
\* which draws a rowid for every row of the file on every run
MaxLoadId == 8

t2015 == <<"2", "0", "1", "5">>
t2016 == <<"2", "0", "1", "6">>

\* the CSV files of a run: the electricity rows and the population rows
LoadFiles ==
    { [elec |-> << <<Testland, TST, t2016, <<"2", "5", "0">>>>,
                   <<Testland, TST, t2015, <<"1", "2", "0", "0">>>> >>,
       pop |-> << <<TST, (2015 :> <<"9", "0", "0">> @@ 2016 :> <<"1", "0", "0", "0">>)>> >>],
      [elec |-> << <<Kenya, KNY, t2015, <<"4", "0">>>>,
                   <<Kenya, <<>>, t2016, <<"7", "0">>>>,
                   <<Kenya, KEN, t2016, <<"a", "b", "c">>>> >>,
       pop |-> << <<KEN, (2015 :> <<>> @@ 2016 :> <<"5", "0", "0">>)>> >>],
      [elec |-> << <<<<" ">>, <<>>, t2016, <<"5">>>>,
                   <<World, <<>>, <<"2", "0", "x", "6">>, <<"7">>>> >>,
       pop |-> <<>>],
      [elec |-> << <<<<" ", "T", "e", "s", "t", "l", "a", "n", "d">>, <<>>, t2016,
                     <<"3", "0", "0", ".", "9">>>> >>,
       pop |-> <<>>] }

\* python data_loader.py: one run of the script; a run may follow a run
load_data(f) ==
    /\ last.op \in {"idle", "load_data"}
    /\ \E db \in {load_data_db(tables, countries, country_seq, elec, elec_seq,
                               popdata, pop_seq, f)} :
        /\ db.seq <= MaxLoadId
        /\ tables' = init_db_on(tables)
        /\ countries' = db.countries
        /\ country_seq' = db.cseq
        /\ elec' = db.elec
        /\ elec_seq' = db.seq
        /\ popdata' = db.popdata
        /\ pop_seq' = db.pseq
    /\ Returned("load_data", <<f>>, "None")

NextLoad ==
    \/ \E f \in LoadFiles : load_data(f)
    \/ \E c \in {<<Testland, Kenya>>} : query_two_country_compare_call(2015, c[1], c[2])
    \/ Return

SpecLoad == Init /\ [][NextLoad]_vars

---------------------------------------------------------------------------
(* The properties checked.  A row of ElectricityAccess is
   <<record_id, country_id, year, population, without, with>>, a row of
   Countries <<country_id, country_name, region>>, a row of PopulationData
   <<pop_id, country_id, year, population>>; a percentage is in hundredths. *)

\* the AccessRecords of the country named n for year y
RecordsIn(erows, crows, n, y) ==
    {e \in erows : e[3] = Cell(y) /\ \E c \in crows : c[1] = e[2] /\ c[2] = Cell(n)}

RecordsOf(n, y) == RecordsIn(elec, countries, n, y)

RecordIdsOf(S) == {e[1] : e \in S}

C1_OnePerKey == \A e1, e2 \in elec : (e1[2] = e2[2] /\ e1[3] = e2[3]) => e1 = e2

C1_AddInPlace ==
    (last = Idle /\ last'.op = "add_electricity_record"
        /\ RecordsOf(last'.args[1], last'.args[2]) # {})
    => /\ last'.ret = "None"
       /\ Cardinality(elec') = Cardinality(elec)
       /\ RecordIdsOf(elec') = RecordIdsOf(elec)
       /\ RecordIdsOf(RecordsIn(elec', countries', last'.args[1], last'.args[2]))
            = RecordIdsOf(RecordsOf(last'.args[1], last'.args[2]))

\* C1: whatever calls were made, the store never holds two AccessRecords with the
\* same (country_id, year), and an add_electricity_record for a (country, year)
\* that has a record succeeds by updating it: the record ids and the record count
\* stay as they were.
C1_AtMostOneRecordPerCountryYear == []C1_OnePerKey /\ [][C1_AddInPlace]_vars

\* an add for an existing key has returned: the only record ever inserted holds
\* the population of the first add and the value of the second
C1_Witness ==
    /\ last.op = "add_electricity_record" /\ last.args[3] = Cell(-1)
    /\ elec_seq = 1
    /\ \E e \in elec : e[1] = Cell(1) /\ e[4] = Cell(1000000) /\ e[5] = Cell(2000000)

\* the "with" role as C2 states it: the first column whose name contains "with"
\* and does not contain "without"
C2_with_role(cols, default) ==
    NextCol(cols, LAMBDA c : HasSub(s_with, c) /\ ~HasSub(s_without, c), default)

\* C2: on the ElectricityAccess table the "with" role that add_record,
\* get_records, update_record and query_yearly_trend resolve is the first column
\* containing "with" and not "without", and on the canonical column order it is
\* never people_without_electricity.
C2_WithRoleExcludesWithout ==
    /\ with_role(get_columns(tables, "ElectricityAccess"), NoCol)
         = C2_with_role(get_columns(tables, "ElectricityAccess"), NoCol)
    /\ get_columns(tables, "ElectricityAccess") = CanonicalElecCols
         => with_role(CanonicalElecCols, NoCol) # col_people_without_electricity

\* the rows of a listing for the country named n and year y
RowsFor(listing, n, y) ==
    Filter(listing, LAMBDA row : row[2] = Cell(n) /\ row[3] = Cell(y))

C3_AddThenList ==
    (last = Idle /\ last'.op = "add_electricity_record" /\ last'.ret = "None"
        /\ RecordsOf(last'.args[1], last'.args[2]) = {})
    => \E id \in RecordIdsOf(elec') :
          RowsFor(get_electricity_records(tables', countries', elec', NULL),
                  last'.args[1], last'.args[2])
            = << <<id, Cell(last'.args[1]), Cell(last'.args[2]),
                   last'.args[5], last'.args[3], last'.args[4]>> >>

\* C3: when add_electricity_record(n, y, w, x, p) returns on a store that had no
\* record for (n, y), the listing holds exactly one row for (n, y), and it is
\* (record_id, n, y, p, w, x), NULL where p or x was omitted.
C3_RoundTrip == [][C3_AddThenList]_vars

\* the total C4 states for year y: the sum of the with column over y's records
C4_TotalWith(y) ==
    SumSeq(Map(Filter(Scan(elec), LAMBDA e : e[3] = Cell(y)),
               LAMBDA e : IF e[6] # NULL THEN Val(e[6]) ELSE 0))

C4_Row(y) == <<y, Max(C4_TotalWith(y), 0)>>

\* C4: on the canonical table, which has a with column, query_yearly_trend
\* returns one <<year, total>> per year that has records, in ascending year
\* order, total being the sum of the with column over the year's records,
\* 0 when that sum is negative.
C4_YearlyTrendSumsWith ==
    last.op = "query_yearly_trend"
    => last.ret = Map(Ascending({Val(e[3]) : e \in elec}), C4_Row)

\* C5: no row returned by query_high_unserved, query_access_percent or
\* query_most_improved carries a NULL or empty country name or one that
\* is_aggregate holds of.
C5_NoAggregateRows ==
    last.op \in {"query_high_unserved", "query_access_percent", "query_most_improved"}
    => \A i \in 1..Len(last.ret) :
          /\ last.ret[i][1] # NULL
          /\ Val(last.ret[i][1]) # <<>>
          /\ ~is_aggregate(last.ret[i][1])

\* query_access_percent has returned rows for a year in which the aggregate
\* World has a record with a positive population
C5_Witness ==
    /\ last.op = "query_access_percent"
    /\ Len(last.ret) >= 1
    /\ \E e \in RecordsOf(World, last.args[1]) : e[4] # NULL /\ Val(e[4]) > 0

C6_AddAggregate ==
    (last = Idle /\ last'.op = "add_electricity_record" /\ last'.ret = "None"
        /\ is_aggregate(Cell(last'.args[1])))
    => /\ query_yearly_trend(tables', elec', popdata')
            = query_yearly_trend(tables, elec, popdata)
       /\ \A y \in Years :
            query_regional_comparison(tables', countries', elec', popdata', Cell(y))
              = query_regional_comparison(tables, countries, elec, popdata, Cell(y))

\* C6: an add_electricity_record for a country whose name is an aggregate leaves
\* the results of query_yearly_trend and of query_regional_comparison, for every
\* year, as they were: such records contribute to no total.
C6_AggregateRecordsContributeNothing == [][C6_AddAggregate]_vars

\* character a of a name is letter b of a keyword, in either case
C7_SameLetter(a, b) ==
    a = b \/ \E n \in 1..Len(LowerChars) : UpperChars[n] = a /\ LowerChars[n] = b

\* keyword k occurs in text t at some offset, whatever the case of t's letters
C7_Occurs(k, t) ==
    \E off \in 0..(Len(t) - Len(k)) :
        \A j \in 1..Len(k) : C7_SameLetter(t[off + j], k[j])

C7_Expected(name) ==
    IF name = NULL \/ Val(name) = <<>> THEN TRUE
    ELSE \E k \in AGGREGATE_WORDS : C7_Occurs(k, Val(name))

\* C7: is_aggregate holds of None and of the empty name, and of any other name
\* exactly when a keyword occurs in it, whatever the case of its letters (no
\* keyword begins or ends with a blank, so trimming changes nothing); it holds
\* of "World" and not of "Kenya".
C7_IsAggregate ==
    /\ last.op = "is_aggregate" => last.ret = C7_Expected(last.args[1])
    /\ is_aggregate(Cell(World))
    /\ ~is_aggregate(Cell(Kenya))
    /\ is_aggregate(Cell(<<>>))
    /\ is_aggregate(NULL)

\* is_aggregate has returned true for a name in upper case
C7_Witness ==
    /\ last.op = "is_aggregate"
    /\ last.args[1] = Cell(<<"I", "D", "A">>)
    /\ last.ret = TRUE

\* the without value stored for the country named by row in year y lies
\* outside [0, population of the row]
C8_StoredOutside(row, y) ==
    \E e \in elec : /\ e[3] = Cell(y)
                    /\ \E c \in countries : c[1] = e[2] /\ c[2] = row[1]
                    /\ e[5] # NULL
                    /\ (Val(e[5]) < 0 \/ Val(e[5]) > row[2])

\* C8: every row <<country, population, without, access_pct>> of
\* query_access_percent has population > 0, 0 <= without <= population and
\* 0 <= access_pct <= 100, and every access percentage of
\* query_regional_comparison and query_most_improved lies in [0, 100]
\* (percentages are held in hundredths), whatever values are stored.
C8_RowsWithinBounds ==
    /\ last.op = "query_access_percent"
       => \A i \in 1..Len(last.ret) :
             /\ last.ret[i][2] > 0
             /\ 0 <= last.ret[i][3] /\ last.ret[i][3] <= last.ret[i][2]
             /\ 0 <= last.ret[i][4] /\ last.ret[i][4] <= 10000
    /\ last.op = "query_regional_comparison"
       => \A i \in 1..Len(last.ret) :
             0 <= last.ret[i][2] /\ last.ret[i][2] <= 10000
    /\ last.op = "query_most_improved"
       => \A i \in 1..Len(last.ret) :
             /\ 0 <= last.ret[i][2] /\ last.ret[i][2] <= 10000
             /\ 0 <= last.ret[i][3] /\ last.ret[i][3] <= 10000

\* query_access_percent has returned a row for a record whose stored without
\* value is negative or above the population
C8_Witness ==
    /\ last.op = "query_access_percent"
    /\ \E i \in 1..Len(last.ret) : C8_StoredOutside(last.ret[i], last.args[1])

\* the AccessRecords of the country row c for year y
RecordsOfCountry(c, y) == {e \in elec : e[2] = c[1] /\ e[3] = Cell(y)}

\* the known PopulationRecord values of the country row c for year y
PopulationRecords(c, y) ==
    {p[4] : p \in {q \in popdata : q[2] = c[1] /\ q[3] = Cell(y) /\ q[4] # NULL}}

\* the population of country row c in year y: the PopulationRecord value when
\* one is known, else the one embedded in the AccessRecord, else NULL
PopulationOf(c, y) ==
    IF PopulationRecords(c, y) # {} THEN CHOOSE v \in PopulationRecords(c, y) : TRUE
    ELSE IF RecordsOfCountry(c, y) # {}
         THEN (CHOOSE e \in RecordsOfCountry(c, y) : TRUE)[4]
         ELSE NULL

\* the stored without value of country row c in year y, 0 when there is none
WithoutOf(c, y) ==
    IF RecordsOfCountry(c, y) # {}
    THEN Val(Coalesce((CHOOSE e \in RecordsOfCountry(c, y) : TRUE)[5], Cell(0)))
    ELSE 0

\* w clamped to [0, p]
Clamped(w, p) == IF w < 0 THEN 0 ELSE IF w > p THEN p ELSE w

\* the remainder of 10000 * n / p, by two divisions by p of a hundredfold value
HundredthsRest(n, p) == (100 * ((100 * n) % p)) % p

\* floor(10000 * n / p)
HundredthsFloor(n, p) == 100 * ((100 * n) \div p) + (100 * ((100 * n) % p)) \div p

\* pct is (p - w) / p * 100 rounded to 2 places, in hundredths, for 0 <= w <= p
IsAccessPct(pct, p, w) ==
    \/ pct = HundredthsFloor(p - w, p) /\ 2 * HundredthsRest(p - w, p) <= p
    \/ pct = HundredthsFloor(p - w, p) + 1 /\ 2 * HundredthsRest(p - w, p) >= p

\* country row c is due a row of query_access_percent(y)
C9_Listed(c, y) ==
    /\ ~is_aggregate(c[2])
    /\ RecordsOfCountry(c, y) # {}
    /\ PopulationOf(c, y) # NULL
    /\ Val(PopulationOf(c, y)) > 0

\* row is the row due to country row c for year y
C9_RowOf(row, c, y) ==
    /\ row[1] = c[2]
    /\ row[2] = Val(PopulationOf(c, y))
    /\ row[3] = Clamped(WithoutOf(c, y), row[2])
    /\ IsAccessPct(row[4], row[2], row[3])

\* the store holds only Testland, with (2020, population 1000000, without 250000)
C9_OnlyTestland ==
    /\ {c[2] : c \in countries} = {Cell(Testland)}
    /\ popdata = {}
    /\ {<<e[3], e[4], e[5]>> : e \in elec} = {<<Cell(2020), Cell(1000000), Cell(250000)>>}
    /\ Cardinality(elec) = 1

RECURSIVE SumOfPairs(_)
SumOfPairs(S) ==
    IF S = {} THEN 0
    ELSE (CHOOSE x \in S : TRUE)[2] + SumOfPairs(S \ {CHOOSE x \in S : TRUE})

\* the AccessRecords of year y of the countries of region g, each with its country
C10_RegionRecords(g, y) ==
    {<<e, c>> \in elec \X countries :
        /\ e[2] = c[1] /\ e[3] = Cell(y)
        /\ c[3] # NULL /\ Cell(Strip(Val(c[3]))) = g}

C10_RegionPopulation(g, y) ==
    SumOfPairs({<<ec[1][1], Val(Coalesce(PopulationOf(ec[2], y), Cell(0)))>> :
                    ec \in C10_RegionRecords(g, y)})

C10_RegionWithout(g, y) ==
    SumOfPairs({<<ec[1][1], Val(Coalesce(ec[1][5], Cell(0)))>> :
                    ec \in C10_RegionRecords(g, y)})

\* pct is the access percentage of country row c in year y from PopulationOf
C10_AccessFrom(pct, c, y) ==
    /\ PopulationOf(c, y) # NULL
    /\ IsAccessPct(pct, Val(PopulationOf(c, y)),
                   Clamped(WithoutOf(c, y), Val(PopulationOf(c, y))))

\* C10: for every (country, year) the population that query_access_percent,
\* query_regional_comparison and query_most_improved use is the PopulationData
\* value when one is known for that (country, year), and the population
\* embedded in the AccessRecord only when none is.
C10_PopulationPrecedence ==
    /\ last.op = "query_access_percent"
       => \A i \in 1..Len(last.ret) :
             \E c \in countries :
                /\ c[2] = last.ret[i][1]
                /\ Cell(last.ret[i][2]) = PopulationOf(c, last.args[1])
    /\ last.op = "query_regional_comparison"
       => \A i \in 1..Len(last.ret) :
             /\ C10_RegionPopulation(last.ret[i][1], last.args[1]) > 0
             /\ IsAccessPct(last.ret[i][2],
                    C10_RegionPopulation(last.ret[i][1], last.args[1]),
                    Clamped(C10_RegionWithout(last.ret[i][1], last.args[1]),
                            C10_RegionPopulation(last.ret[i][1], last.args[1])))
    /\ last.op = "query_most_improved"
       => \A i \in 1..Len(last.ret) :
             \E c \in countries :
                /\ c[2] = last.ret[i][1]
                /\ C10_AccessFrom(last.ret[i][2], c, last.args[1])
                /\ C10_AccessFrom(last.ret[i][3], c, last.args[2])

\* a record of year y of country row c embeds a population other than the
\* known PopulationData value of (c, y)
C10_BothKnown(c, y) ==
    /\ PopulationRecords(c, y) # {}
    /\ \E e \in RecordsOfCountry(c, y) :
          e[4] # NULL /\ e[4] \notin PopulationRecords(c, y)

\* query_access_percent has returned a row for a country whose record embeds
\* a population other than its PopulationData value
C10_Witness ==
    /\ last.op = "query_access_percent"
    /\ \E i \in 1..Len(last.ret) :
          \E c \in countries : c[2] = last.ret[i][1] /\ C10_BothKnown(c, last.args[1])

\* the regions, trimmed, of the countries that have a record for year y
C11_Regions(y) ==
    {Cell(Strip(Val(c[3]))) : c \in {d \in countries : d[3] # NULL /\ RecordsOfCountry(d, y) # {}}}

\* pct is the access percentage of region g for year y from the summed
\* population and the summed without of its records
C11_Weighted(pct, g, y) ==
    /\ C10_RegionPopulation(g, y) > 0
    /\ IsAccessPct(pct, C10_RegionPopulation(g, y),
                   Clamped(C10_RegionWithout(g, y), C10_RegionPopulation(g, y)))

\* the records of year y are A (population 100, without 0) of Testland and
\* B (population 900, without 900) of Kenya, both countries in RegionX
C11_ExampleAB(y) ==
    /\ {<<c[2], c[3]>> : c \in countries}
         = {<<Cell(Testland), Cell(RegionX)>>, <<Cell(Kenya), Cell(RegionX)>>}
    /\ popdata = {}
    /\ \E c \in countries :
          /\ c[2] = Cell(Testland)
          /\ {<<e[4], e[5]>> : e \in RecordsOfCountry(c, y)} = {<<Cell(100), Cell(0)>>}
    /\ \E c \in countries :
          /\ c[2] = Cell(Kenya)
          /\ {<<e[4], e[5]>> : e \in RecordsOfCountry(c, y)} = {<<Cell(900), Cell(900)>>}

\* C11: query_regional_comparison(year) is population-weighted: the percentage
\* of each region is (summed population - summed without) / summed population
\* * 100 over the region's records of the year, rounded to 2 places (the summed
\* without held within [0, summed population]), not the mean of the
\* per-country percentages: A(100, 0) and B(900, 900) in one region give 10.00;
\* no row has an empty or null region, each region with a positive summed
\* population has one row, and the rows are in descending order of percentage.
C11_RegionalPopulationWeighted ==
    last.op = "query_regional_comparison"
    => /\ \A i \in 1..Len(last.ret) :
             /\ last.ret[i][1] # NULL
             /\ Val(last.ret[i][1]) # <<>>
             /\ last.ret[i][1] \in C11_Regions(last.args[1])
             /\ C11_Weighted(last.ret[i][2], last.ret[i][1], last.args[1])
       /\ \A g \in C11_Regions(last.args[1]) :
             (Val(g) # <<>> /\ C10_RegionPopulation(g, last.args[1]) > 0)
             => Cardinality({i \in 1..Len(last.ret) : last.ret[i][1] = g}) = 1
       /\ \A i, j \in 1..Len(last.ret) : i < j => last.ret[i][2] >= last.ret[j][2]
       /\ C11_ExampleAB(last.args[1]) => last.ret = << <<Cell(RegionX), 1000>> >>

\* query_regional_comparison has returned for a year whose records are A and B
\* of one region
C11_Witness ==
    /\ last.op = "query_regional_comparison"
    /\ C11_ExampleAB(last.args[1])
    /\ Len(last.ret) = 1

\* the without of record e of country row c for year y, held within
\* [0, population of that record]
C12_RecordWithout(e, c, y) ==
    IF PopulationOf(c, y) # NULL
    THEN Clamped(Val(Coalesce(e[5], Cell(0))), Val(PopulationOf(c, y)))
    ELSE Clamped(Val(Coalesce(e[5], Cell(0))), Val(Coalesce(e[5], Cell(0))))

\* the summed without of region g for year y, each record clamped first
C12_RegionWithout(g, y) ==
    SumOfPairs({<<ec[1][1], C12_RecordWithout(ec[1], ec[2], y)>> :
                    ec \in C10_RegionRecords(g, y)})

\* C12: in query_regional_comparison the without of each record is clamped
\* into [0, population of the record] before it enters the summed without of
\* the region, so the percentage of a region is the one its summed population
\* and its summed clamped without give.
C12_ClampedPerRecord ==
    last.op = "query_regional_comparison"
    => \A i \in 1..Len(last.ret) :
          /\ C10_RegionPopulation(last.ret[i][1], last.args[1]) > 0
          /\ IsAccessPct(last.ret[i][2],
                 C10_RegionPopulation(last.ret[i][1], last.args[1]),
                 Clamped(C12_RegionWithout(last.ret[i][1], last.args[1]),
                         C10_RegionPopulation(last.ret[i][1], last.args[1])))

\* country row c has a known population > 0 for year y
KnownPopulation(c, y) == PopulationOf(c, y) # NULL /\ Val(PopulationOf(c, y)) > 0

\* country row c has without data for year y
HasWithout(c, y) == \E e \in RecordsOfCountry(c, y) : e[5] # NULL

\* country row c is due a row of query_most_improved(s, e)
C13_Listed(c, s, e) ==
    ~is_aggregate(c[2]) /\ KnownPopulation(c, s) /\ KnownPopulation(c, e)

\* pct is the percentage of country row c for year y, from the population and
\* the clamped without of that year
C13_PctOf(pct, c, y) ==
    HasWithout(c, y)
    => IsAccessPct(pct, Val(PopulationOf(c, y)),
                   Clamped(WithoutOf(c, y), Val(PopulationOf(c, y))))

C14_MissingWithoutExcluded ==
    last.op = "query_most_improved"
    => \A i \in 1..Len(last.ret) :
          \A c \in countries :
             c[2] = last.ret[i][1]
             => HasWithout(c, last.args[1]) /\ HasWithout(c, last.args[2])

\* the sum of without over all the AccessRecords of country row c, null as 0
C15_TotalWithout(c) ==
    SumOfPairs({<<e[1], Val(Coalesce(e[5], Cell(0)))>> : e \in {x \in elec : x[2] = c[1]}})

\* country row c is due a row of query_high_unserved(threshold)
C15_Listed(c, threshold) == ~is_aggregate(c[2]) /\ C15_TotalWithout(c) > threshold

\* C15: query_high_unserved(threshold) returns exactly the non-aggregate
\* countries whose sum of without over all their AccessRecords is strictly
\* greater than threshold, each with that sum, in descending order of the sum;
\* a country whose sum equals threshold is not returned.
C15_HighUnservedRows ==
    last.op = "query_high_unserved"
    => /\ \A i \in 1..Len(last.ret) :
             \E c \in countries :
                /\ c[2] = last.ret[i][1]
                /\ C15_Listed(c, last.args[1])
                /\ last.ret[i][2] = C15_TotalWithout(c)
       /\ \A c \in countries :
             Cardinality({i \in 1..Len(last.ret) : last.ret[i][1] = c[2]})
                = IF C15_Listed(c, last.args[1]) THEN 1 ELSE 0
       /\ \A i, j \in 1..Len(last.ret) : i < j => last.ret[i][2] >= last.ret[j][2]

\* query_high_unserved has returned one country and left out another whose
\* sum equals the threshold
C15_Witness ==
    /\ last.op = "query_high_unserved"
    /\ Len(last.ret) = 1
    /\ \E c \in countries :
          /\ ~is_aggregate(c[2])
          /\ {x \in elec : x[2] = c[1]} # {}
          /\ C15_TotalWithout(c) = last.args[1]

\* the country rows that query_access_percent(y) lists under a name equal to
\* cname once both are trimmed and lower-cased
C16_Matches(cname, y) ==
    {c \in countries : C9_Listed(c, y) /\ Lower(Strip(Val(c[2]))) = Lower(Strip(cname))}

\* row carries the metrics of the row of query_access_percent(y) for country row c
C16_MetricsOf(row, c, y) ==
    /\ row[2] # NULL
    /\ C9_RowOf(<<row[1], Val(row[3]), Val(row[5]), Val(row[2])>>, c, y)
    /\ Val(row[4]) = Val(row[3]) - Val(row[5])

\* row is the row due to cname for year y
C16_RowFor(row, cname, y) ==
    IF C16_Matches(cname, y) # {}
    THEN \E c \in C16_Matches(cname, y) : C16_MetricsOf(row, c, y)
    ELSE row[1] = Cell(cname) /\ row[2] = NULL

\* C16: query_two_country_compare(year, c1, c2) returns exactly two rows, the
\* first for c1 and the second for c2: a name that matches, trimmed and
\* whatever its case, a row of query_access_percent(year) yields the metrics
\* of that row, and any other name yields a placeholder row with a null
\* percentage.
C16_TwoRows ==
    last.op = "query_two_country_compare"
    => /\ Len(last.ret) = 2
       /\ C16_RowFor(last.ret[1], last.args[2], last.args[1])
       /\ C16_RowFor(last.ret[2], last.args[3], last.args[1])

\* query_two_country_compare has returned the metrics of Testland for a name
\* in upper case between blanks, and a placeholder for the other name
C16_Witness ==
    /\ last.op = "query_two_country_compare"
    /\ last.args[2] # Testland
    /\ last.ret[1][1] = Cell(Testland)
    /\ last.ret[1][2] # NULL
    /\ last.ret[2][2] = NULL

\* C17: when the Countries table or the ElectricityAccess table is absent,
\* query_high_unserved, query_yearly_trend, query_access_percent,
\* query_regional_comparison, query_most_improved, get_countries and
\* get_electricity_records each return an empty list.
C17_AbsentTableEmptyResult ==
    (/\ last.op \in {"query_high_unserved", "query_yearly_trend", "query_access_percent",
                     "query_regional_comparison", "query_most_improved",
                     "get_countries", "get_electricity_records"}
     /\ \/ ~table_exists(tables, "Countries")
        \/ ~table_exists(tables, "ElectricityAccess"))
    => last.ret = <<>>

C18_AddUnresolvable ==
    (last = Idle /\ last'.op = "add_electricity_record" /\ last'.args[1] = Empty)
    => /\ last'.ret = "RuntimeError"
       /\ elec' = elec
       /\ elec_seq' = elec_seq

\* C18: add_electricity_record called with a country name that can be neither
\* found nor created, the empty string, raises RuntimeError to the caller and
\* adds no AccessRecord.
C18_UnresolvableCountryFails == [][C18_AddUnresolvable]_vars

\* add_electricity_record has raised for the empty name although a Country
\* row with the empty name is stored
C18_Witness ==
    /\ last.op = "add_electricity_record"
    /\ last.args[1] = Empty
    /\ last.ret = "RuntimeError"
    /\ \E c \in countries : c[2] = Cell(Empty)

C19_DeleteFrame ==
    /\ countries \subseteq countries'
    /\ (last = Idle /\ last'.op = "delete_electricity_record")
       => /\ countries' = countries
          /\ popdata' = popdata
          /\ elec' = {e \in elec : e[1] # Cell(last'.args[1])}

\* C19: no operation removes a Country row; delete_electricity_record(id)
\* removes the AccessRecord with that id and nothing else: every Country row,
\* every PopulationData row and every other AccessRecord is left as it was,
\* and nothing changes when no record has that id.
C19_DeleteRemovesOneRecord == [][C19_DeleteFrame]_vars

\* delete_electricity_record has removed one of two AccessRecords
C19_Witness ==
    /\ last.op = "delete_electricity_record"
    /\ elec_seq = 2
    /\ Cardinality(elec) = 1
    /\ \A e \in elec : e[1] # Cell(last.args[1])
    /\ countries # {}

\* C20: every Country name is non-empty, and no two Country rows have names
\* that are equal once lower-cased.
C20_NamesDistinctWhateverCase ==
    /\ \A c \in countries : c[2] # NULL /\ Val(c[2]) # <<>>
    /\ \A c, d \in countries :
          (c[2] # NULL /\ d[2] # NULL /\ Lower(Val(c[2])) = Lower(Val(d[2]))) => c = d

\* the Country rows an add_electricity_record step has added
C21_NewCountries == countries' \ countries

C21_AddBothOrNeither ==
    (last = Idle /\ last'.op = "add_electricity_record")
    => \A c \in C21_NewCountries :
          \E e \in elec' \ elec : e[2] = c[1]

\* C21: add_electricity_record for a country not yet known either commits both
\* the new Country and its new AccessRecord or commits neither: a call that
\* fails leaves no new Country without its AccessRecord.
C21_AddIsAtomic == [][C21_AddBothOrNeither]_vars

C29_UpdateFrame ==
    (last = Idle /\ last'.op = "update_record" /\ last'.ret = "None")
    => /\ \A e \in elec : e[1] # Cell(last'.args[1]) => e \in elec'
       /\ Cardinality(elec') = Cardinality(elec)
       /\ \A e \in elec :
             e[1] = Cell(last'.args[1])
             => \E f \in elec' :
                   /\ f[1] = e[1] /\ f[2] = e[2] /\ f[3] = e[3]
                   /\ f[4] = Coalesce(last'.args[4], e[4])
                   /\ f[5] = Coalesce(last'.args[2], e[5])
                   /\ f[6] = Coalesce(last'.args[3], e[6])

\* C29: update_record(id, pwe, pwe_with, population) changes only the fields
\* whose argument is given, and only on the record with that id: with
\* pwe_with alone the without, population, year and country of the record
\* stay as they were, and every other record is unchanged.
C29_UpdateChangesGivenFieldsOnly == [][C29_UpdateFrame]_vars

C30_FailedAdd ==
    (last = Idle /\ last'.op = "add_electricity_record" /\ last'.ret = "RuntimeError")
    => /\ countries' = countries
       /\ elec' = elec
       /\ popdata' = popdata
       /\ tables' = tables

\* C30: when add_electricity_record fails with "Failed to create or resolve
\* country" the store is as it was before the call: no Country row and no
\* AccessRecord has been added.
C30_FailedAddLeavesStore == [][C30_FailedAdd]_vars

\* the without value of the raw row a normalizer was called with
C22_Source ==
    LET r == last.args[1]
    IN  IF Len(r) >= 6 THEN r[5] ELSE IF Len(r) >= 4 THEN r[4] ELSE NoneV

\* the source value is missing, the "None" sentinel, or cannot be coerced
C22_NoNumber ==
    \/ C22_Source.kind = "none"
    \/ /\ C22_Source.kind = "str"
       /\ \/ LowerText(C22_Source.text) = s_none
          \/ int_of_float(C22_Source.text) = NoneV

\* C22: in every record the backend normalizer produces, without is a number
\* and never null; it is 0 when the source value is missing, is the "None"
\* sentinel, or cannot be coerced.
C22_WithoutIsNumber ==
    last.op = "normalize"
    => /\ last.ret[5].kind = "int"
       /\ C22_NoNumber => last.ret[5] = IntV(0)

C23_Renormalized ==
    (/\ last.op \in {"normalize", "normalize_row"}
     /\ last'.op = last.op
     /\ last'.args = <<last.ret>>)
    => last'.ret = last.ret

\* C23: normalization is idempotent: normalizing a record a normalizer has
\* produced from a raw row of 4, 5 or 6 fields yields the same record.
C23_NormalizeIdempotent == [][C23_Renormalized]_vars

\* the with column of a row query_two_country_compare found metrics for
C24_CompareWith ==
    last.op = "query_two_country_compare"
    => \A i \in 1..Len(last.ret) :
          last.ret[i][2] # NULL
          => last.ret[i][4] = Cell(Max(Val(last.ret[i][3]) - Val(last.ret[i][5]), 0))

\* the people_with the loader has stored with a known population
C24_LoaderWith ==
    last.op = "load_data"
    => \A e \in elec :
          e[4] # NULL => e[6] = Cell(Max(Val(e[4]) - Val(e[5]), 0))

\* C24: wherever people_with is derived from a known population and without,
\* in the with column of query_two_country_compare and in the people_with the
\* data loader stores, the value is max(population - without, 0): it is 0, not
\* null and not negative, when without exceeds population.
C24_DerivedWith == C24_CompareWith /\ C24_LoaderWith

C27_SecondRun ==
    (last.op = "load_data" /\ last'.op = "load_data" /\ last'.args = last.args)
    => /\ countries' = countries
       /\ elec' = elec
       /\ popdata' = popdata

\* C27: the data loader is idempotent: a run of load_data that follows a run
\* on the same CSV files leaves the Countries, the AccessRecords and the
\* PopulationRecords exactly as the first run left them.
C27_LoadIdempotent == [][C27_SecondRun]_vars

\* the file with the rows of Kenya alone has been loaded twice: its three rows
\* have drawn six record ids for two records, one of them written from the
\* population file
C27_Witness ==
    /\ last.op = "load_data"
    /\ {c[2] : c \in countries} = {Cell(Kenya)}
    /\ elec_seq = 6
    /\ Cardinality(elec) = 2
    /\ \E e \in elec : e[3] = Cell(2016) /\ e[4] = Cell(500) /\ e[5] = Cell(0)
    /\ popdata # {}

\* the list the query of the last call returns from the same rows held in
\* tables of the canonical names
C25_Canonical ==
    CASE last.op = "query_high_unserved" ->
            query_high_unserved(init_db, countries, elec, last.args[1])
      [] last.op = "query_yearly_trend" ->
            query_yearly_trend(init_db, elec, popdata)
      [] last.op = "query_access_percent" ->
            query_access_percent(init_db, countries, elec, popdata, Cell(last.args[1]))
      [] last.op = "query_regional_comparison" ->
            query_regional_comparison(init_db, countries, elec, popdata, Cell(last.args[1]))
      [] last.op = "query_most_improved" ->
            query_most_improved(init_db, countries, elec, popdata,
                                Cell(last.args[1]), Cell(last.args[2]))
      [] last.op = "query_two_country_compare" ->
            query_two_country_compare(init_db, countries, elec, popdata,
                                      Cell(last.args[1]), last.args[2], last.args[3])
      [] OTHER -> last.ret

\* C25: on a store whose tables are named countries and electricity_access,
\* every analytical query returns the list it returns from the same rows in
\* tables named Countries and ElectricityAccess.
C25_LowercaseSameAsCanonical ==
    /\ table_exists(tables, "countries") /\ ~table_exists(tables, "Countries")
    /\ table_exists(tables, "electricity_access") /\ ~table_exists(tables, "ElectricityAccess")
    /\ last.ret = C25_Canonical

\* query_access_percent has returned a row from the lowercase tables
C25_Witness ==
    /\ table_exists(tables, "countries") /\ table_exists(tables, "electricity_access")
    /\ last.op = "query_access_percent"
    /\ last.ret # <<>>
    /\ last.ret[1][1] = Cell(Testland)

\* the AccessRecords whose country is a row of Countries
C26_Joined == {e \in elec : \E c \in countries : c[1] = e[2]}

---------------------------------------------------------------------------
(* The connections of the analytical queries: what a call connects and
   closes, in the order of its statements.  The handle conn is the call's own
   connection, the handle schema the one _detect_schema works on. *)

connect(h) == <<"connect", h>>
close(h) == <<"close", h>>

\* the handles still open after the statements ev
Open(ev) ==
    {h \in {ev[i][2] : i \in 1..Len(ev)} :
        Cardinality({i \in 1..Len(ev) : ev[i] = connect(h)})
          > Cardinality({i \in 1..Len(ev) : ev[i] = close(h)})}

\* _detect_schema connects, reads the tables and closes before it returns
detect_schema_conns == <<connect("schema"), close("schema")>>

\* an early return that leaves the connection as it is
return_empty_open(conn) == <<>>

\* conn.close(); return []
return_empty(conn) == <<close(conn)>>

\* conn.close() after the rows are read, before the result is returned
close_return(conn) == <<close(conn)>>

\* conn = _connect(); schema = _detect_schema()
connect_detect(conn) == <<connect(conn)>> \o detect_schema_conns

query_high_unserved_conns(schema) ==
    connect_detect("conn") \o
    (IF schema.elec_table = NoTable \/ schema.countries_table = NoTable
     THEN return_empty("conn")
     ELSE close_return("conn"))

query_yearly_trend_conns(schema) ==
    connect_detect("conn") \o
    (IF schema.elec_table = NoTable
     THEN return_empty("conn")
     ELSE IF /\ with_role(schema.elec_cols, NoCol) = NoCol
             /\ schema.pop_table = NoTable
             /\ pop_col(schema.elec_cols, NoCol) = NoCol
     THEN return_empty("conn")
     ELSE close_return("conn"))

query_access_percent_conns(schema) ==
    connect_detect("conn") \o
    (IF schema.elec_table = NoTable \/ schema.countries_table = NoTable
     THEN return_empty("conn")
     ELSE IF schema.pop_table = NoTable /\ pop_col(schema.elec_cols, NoCol) = NoCol
     THEN return_empty("conn")
     ELSE close_return("conn"))

query_regional_comparison_conns(schema) ==
    connect_detect("conn") \o
    (IF schema.elec_table = NoTable \/ schema.countries_table = NoTable
     THEN return_empty("conn")
     ELSE IF region_col(schema.countries_cols) = NoCol
     THEN return_empty("conn")
     ELSE IF schema.pop_table = NoTable /\ pop_col(schema.elec_cols, NoCol) = NoCol
     THEN return_empty("conn")
     ELSE close_return("conn"))

query_most_improved_conns(schema) ==
    connect_detect("conn") \o
    (IF schema.elec_table = NoTable \/ schema.countries_table = NoTable
     THEN return_empty("conn")
     ELSE close_return("conn"))

\* a call of a query: the rows it returns and the connections it worked on
Traced(op, args, rows, conns) == Read(op, args, [rows |-> rows, conns |-> conns])

query_high_unserved_traced(threshold) ==
    Traced("query_high_unserved", <<threshold>>,
           query_high_unserved(tables, countries, elec, threshold),
           query_high_unserved_conns(detect_schema(tables)))

query_yearly_trend_traced ==
    Traced("query_yearly_trend", <<>>,
           query_yearly_trend(tables, elec, popdata),
           query_yearly_trend_conns(detect_schema(tables)))

query_access_percent_traced(year) ==
    Traced("query_access_percent", <<year>>,
           query_access_percent(tables, countries, elec, popdata, Cell(year)),
           query_access_percent_conns(detect_schema(tables)))

query_regional_comparison_traced(year) ==
    Traced("query_regional_comparison", <<year>>,
           query_regional_comparison(tables, countries, elec, popdata, Cell(year)),
           query_regional_comparison_conns(detect_schema(tables)))

query_most_improved_traced(start_year, end_year) ==
    Traced("query_most_improved", <<start_year, end_year>>,
           query_most_improved(tables, countries, elec, popdata,
                               Cell(start_year), Cell(end_year)),
           query_most_improved_conns(detect_schema(tables)))

\* the database files of LegacyFiles, and one whose Countries has no region
ConnFiles ==
    LegacyFiles \cup
    { << [t \in {"Countries", "ElectricityAccess"} |->
            IF t = "Countries" THEN <<col_country_id, col_country_name>>
            ELSE CanonicalElecCols],
         {<<Cell(1), Cell(Testland)>>},
         {<<Cell(1), Cell(1), Cell(2016), Cell(4000000), Cell(250000), NULL>>} >> }

InitConn ==
    \E f \in ConnFiles :
        /\ tables = init_db_on(f[1])
        /\ countries = f[2]
        /\ elec = f[3]
        /\ popdata = {}
        /\ elec_seq = Cardinality(f[3])
        /\ country_seq = Cardinality(f[2])
        /\ pop_seq = 0
        /\ last = Idle

NextConn ==
    \/ \E n \in Names, g \in Regions : add_country(n, g)
    \/ \E n \in Names, y \in Years, a \in AccessIn :
          add_electricity_record(n, y, a[1], a[2], a[3])
    \/ \E t \in Thresholds : query_high_unserved_traced(t)
    \/ query_yearly_trend_traced
    \/ \E y \in Years : query_access_percent_traced(y)
    \/ \E y \in Years : query_regional_comparison_traced(y)
    \/ \E yy \in YearPairs : query_most_improved_traced(yy[1], yy[2])
    \/ Return

SpecConn == InitConn /\ [][NextConn]_vars

AnalyticalQueries ==
    {"query_high_unserved", "query_yearly_trend", "query_access_percent",
     "query_regional_comparison", "query_most_improved"}

\* C28: every analytical query has released its connection when it returns:
\* after a call of HighUnserved, YearlyTrend, AccessPercentByYear,
\* RegionalComparison or MostImproved, on the early empty-result returns as on
\* the others, no connection the call opened is still open.
C28_QueriesReleaseConnection ==
    last.op \in AnalyticalQueries => Open(last.ret.conns) = {}

\* RegionalComparison on a Countries table without a region column: the early
\* return with no rows, the connection closed
C28_Witness ==
    /\ last.op = "query_regional_comparison"
    /\ detect_schema(tables).countries_table # NoTable
    /\ region_col(detect_schema(tables).countries_cols) = NoCol
    /\ last.ret.rows = <<>>
    /\ last.ret.conns = <<connect("conn"), connect("schema"), close("schema"),
                          close("conn")>>

===========================================================================
